---- MODULE Spec2Model ----
(***************************************************************************)
(* Model of two tools of the Troubleshooting MCP server.                    *)
(* The safe-command path:                                                  *)
(*   SafeCommandInput (models.py)      - field constraints, validate_command*)
(*                                       and validate_security_args        *)
(*   validate_safe_args (safe_command.py) - per-command keyword rules      *)
(*   troubleshooting_execute_safe_command - lookup, check, spawn, result   *)
(* The environment inspection:                                             *)
(*   _is_sensitive_variable (environment_inspect.py) - the classification  *)
(*   troubleshooting_inspect_environment - filter, masking, both formats   *)
(*   check_character_limit (utils.py)      - the cut of a long response    *)
(* Strings are sequences of one-character strings, so that strip(),        *)
(* lower(), startswith() and membership are computed on characters.        *)
(***************************************************************************)
EXTENDS Integers, Sequences, FiniteSets, TLC

VARIABLES pc, request, params, errors, response, argv,
          env_pc, os_environ, search_params, is_sensitive, dev_tools, result,
          log_pc, filesystem, log_params, log_result,
          proc_pc, process_iter, search_request, search_result,
          limit_pc, content_in, content_out

\* The variables of a safe-command call and of an environment inspection.
commandVars == <<pc, request, params, errors, response, argv>>
environmentVars == <<env_pc, os_environ, search_params, is_sensitive, dev_tools, result>>

\* The variables of a log reading, of a process search and of a call of
\* check_character_limit.
logVars == <<log_pc, filesystem, log_params, log_result>>
processVars == <<proc_pc, process_iter, search_request, search_result>>
limitVars == <<limit_pc, content_in, content_out>>

vars == <<pc, request, params, errors, response, argv,
          env_pc, os_environ, search_params, is_sensitive, dev_tools, result,
          log_pc, filesystem, log_params, log_result,
          proc_pc, process_iter, search_request, search_result,
          limit_pc, content_in, content_out>>

\* ------------------------------------------------------------- bounds
\* Longest argument list the requests are drawn with.
MaxArgs == 2

\* Largest number of variables in the environment of the process.
MaxEnvVars == 2

\* ------------------------------------------------------------- Optional[T]
None == <<>>
Some(x) == <<x>>
IsNone(o) == o = <<>>
Val(o) == o[1]

\* ------------------------------------------------------------- str methods
UpperChars == <<"A","B","C","D","E","F","G","H","I","J","K","L","M",
                "N","O","P","Q","R","S","T","U","V","W","X","Y","Z">>
LowerChars == <<"a","b","c","d","e","f","g","h","i","j","k","l","m",
                "n","o","p","q","r","s","t","u","v","w","x","y","z">>

Whitespace == {" ", "\t", "\n", "\r"}

LowerChar(c) ==
    IF \E i \in 1..26 : UpperChars[i] = c
    THEN LowerChars[CHOOSE i \in 1..26 : UpperChars[i] = c]
    ELSE c

\* str.lower()
Lower(s) == [i \in 1..Len(s) |-> LowerChar(s[i])]

\* str.strip(): drop leading and trailing whitespace
RECURSIVE LStrip(_)
LStrip(s) == IF s # <<>> /\ Head(s) \in Whitespace THEN LStrip(Tail(s)) ELSE s

RECURSIVE RStrip(_)
RStrip(s) ==
    IF s # <<>> /\ s[Len(s)] \in Whitespace
    THEN RStrip(SubSeq(s, 1, Len(s) - 1))
    ELSE s

Strip(s) == RStrip(LStrip(s))

\* str.startswith(p)
StartsWith(s, p) == Len(s) >= Len(p) /\ SubSeq(s, 1, Len(p)) = p

\* ------------------------------------------------------------- constants.py
SAFE_COMMANDS == {
    <<"p","i","n","g">>,
    <<"t","r","a","c","e","r","o","u","t","e">>,
    <<"n","s","l","o","o","k","u","p">>,
    <<"d","i","g">>,
    <<"n","e","t","s","t","a","t">>,
    <<"s","s">>,
    <<"i","p">>,
    <<"i","f","c","o","n","f","i","g">>,
    <<"d","f">>,
    <<"d","u">>,
    <<"f","r","e","e">>,
    <<"u","p","t","i","m","e">>,
    <<"u","n","a","m","e">>,
    <<"l","s","b","l","k">>,
    <<"l","s","o","f">>,
    <<"w","h","o","a","m","i">>,
    <<"h","o","s","t","n","a","m","e">> }

\* ------------------------------------------------------------- Field(...) limits
CommandMinLength == 1
CommandMaxLength == 200
MaxItems == 20
TimeoutGe == 1
TimeoutLe == 300

\* constants.CHARACTER_LIMIT
CHARACTER_LIMIT == 25000

\* The longest value the Markdown branch of the environment inspection
\* writes in full.
ValueDisplayLimit == 200

\* How far below CHARACTER_LIMIT the long first line of a tool's output
\* stays in the requests of the model.
NearLimitMargin == 150

\* ------------------------------------------------------------- errors, messages
\* What an error message carries: the kind of failure, the token the text
\* cites (None when it cites none) and the set the text enumerates.
Err(kind, token, listed) == [kind |-> kind, token |-> token, listed |-> listed]

\* ------------------------------------------------------------- models.py
\* The set literal of validate_security_args.
ALLOWED_IP_OBJECTS == {
    <<"a","d","d","r">>,
    <<"a","d","d","r","e","s","s">>,
    <<"a">>,
    <<"r","o","u","t","e">>,
    <<"r">>,
    <<"l","i","n","k">>,
    <<"l">>,
    <<"n","e","i","g","h","b","o","r">>,
    <<"n","e","i","g","h">>,
    <<"n">>,
    <<"m","a","d","d","r","e","s","s">>,
    <<"m","a","d","d","r">>,
    <<"m">> }

ip == <<"i","p">>
ifconfig == <<"i","f","c","o","n","f","i","g">>
hostname == <<"h","o","s","t","n","a","m","e">>

\* command: str, str_strip_whitespace, min_length=1, max_length=200: the
\* constraints are checked on the stripped string, before validate_command.
CommandField(v) ==
    LET s == Strip(v) IN
    IF Len(s) < CommandMinLength THEN {Err("string_too_short", None, {})}
    ELSE IF Len(s) > CommandMaxLength THEN {Err("string_too_long", None, {})}
    ELSE {}

\* A variant without lower(): the stripped value as written.
validate_command_no_lower(v) == Strip(v)

\* validate_command: the value the field takes.
validate_command(v) == Lower(Strip(v))

\* A variant that also admits a proper prefix of an allowlisted name.
validate_command_errors_prefix(v) ==
    IF \A c \in SAFE_COMMANDS : ~StartsWith(c, validate_command(v))
    THEN {Err("UnknownCommand", Some(Strip(v)), SAFE_COMMANDS)}
    ELSE {}

\* A variant whose message enumerates nothing.
validate_command_errors_unlisted(v) ==
    IF validate_command(v) \notin SAFE_COMMANDS
    THEN {Err("UnknownCommand", Some(Strip(v)), {})}
    ELSE {}

\* validate_command: the ValueError it raises.
validate_command_errors(v) ==
    IF validate_command(v) \notin SAFE_COMMANDS
    THEN {Err("UnknownCommand", Some(Strip(v)), SAFE_COMMANDS)}
    ELSE {}

\* A variant that keeps every item as it was written.
ArgsValueRaw(a) == a

\* args: list[str] | None, max_items=20; every item is stripped.
ArgsValue(a) ==
    IF IsNone(a) THEN None
    ELSE Some([i \in 1..Len(Val(a)) |-> Strip(Val(a)[i])])

\* A variant that counts the limit as exclusive: a list of max_items items
\* is too long.
ArgsFieldExclusive(a) ==
    IF ~IsNone(a) /\ Len(Val(a)) >= MaxItems
    THEN {Err("too_long", None, {})}
    ELSE {}

ArgsField(a) ==
    IF ~IsNone(a) /\ Len(Val(a)) > MaxItems
    THEN {Err("too_long", None, {})}
    ELSE {}

\* A variant that counts the limits of the timeout as exclusive.
TimeoutFieldExclusive(t) ==
    IF IsNone(t) THEN {}
    ELSE IF Val(t) <= TimeoutGe THEN {Err("greater_than_equal", None, {})}
    ELSE IF Val(t) >= TimeoutLe THEN {Err("less_than_equal", None, {})}
    ELSE {}

\* timeout: int | None, ge=1, le=300.
TimeoutField(t) ==
    IF IsNone(t) THEN {}
    ELSE IF Val(t) < TimeoutGe THEN {Err("greater_than_equal", None, {})}
    ELSE IF Val(t) > TimeoutLe THEN {Err("less_than_equal", None, {})}
    ELSE {}

\* The errors of the three fields; validate_command runs only on a command
\* that passed its length constraints.
FieldErrors(r) ==
    (IF CommandField(r.command) # {} THEN CommandField(r.command)
     ELSE validate_command_errors(r.command))
    \cup ArgsField(r.args) \cup TimeoutField(r.timeout)

\* A variant in which the instance keeps the command as it was written.
FieldValuesRawCommand(r) ==
    [command |-> Strip(r.command),
     args    |-> ArgsValue(r.args),
     timeout |-> r.timeout]

\* The instance the model validator receives.
FieldValues(r) ==
    [command |-> validate_command(r.command),
     args    |-> ArgsValue(r.args),
     timeout |-> r.timeout]

\* self.args or []
ArgsOrEmpty(a) == IF IsNone(a) THEN <<>> ELSE Val(a)

\* A variant without lower(): arg.startswith("-b")
IsBlockedIpFlagCaseSensitive(arg) == StartsWith(arg, <<"-","b">>)

\* arg.lower().startswith("-b")
IsBlockedIpFlag(arg) == StartsWith(Lower(arg), <<"-","b">>)

\* A variant that compares the object without lower().
RECURSIVE IpScanCaseSensitive(_, _, _)
IpScanCaseSensitive(args, i, has_object) ==
    IF i > Len(args) THEN {}
    ELSE
      LET arg == args[i] IN
      IF StartsWith(arg, <<"-">>)
      THEN IF StartsWith(Lower(arg), <<"-","b">>)
           THEN {Err("BlockedFlag", Some(arg), {})}
           ELSE IpScanCaseSensitive(args, i + 1, has_object)
      ELSE IF ~has_object
           THEN IF arg \notin ALLOWED_IP_OBJECTS
                THEN {Err("BlockedObject", Some(arg), ALLOWED_IP_OBJECTS)}
                ELSE IpScanCaseSensitive(args, i + 1, TRUE)
           ELSE IpScanCaseSensitive(args, i + 1, has_object)

\* A variant that never sets has_object: every non-flag token must be an
\* allowed object.
RECURSIVE IpScanEveryToken(_, _, _)
IpScanEveryToken(args, i, has_object) ==
    IF i > Len(args) THEN {}
    ELSE
      LET arg == args[i] IN
      IF StartsWith(arg, <<"-">>)
      THEN IF StartsWith(Lower(arg), <<"-","b">>)
           THEN {Err("BlockedFlag", Some(arg), {})}
           ELSE IpScanEveryToken(args, i + 1, has_object)
      ELSE IF Lower(arg) \notin ALLOWED_IP_OBJECTS
           THEN {Err("BlockedObject", Some(arg), ALLOWED_IP_OBJECTS)}
           ELSE IpScanEveryToken(args, i + 1, has_object)

\* The loop of validate_security_args over args[i..], with has_object.
RECURSIVE IpScan(_, _, _)
IpScan(args, i, has_object) ==
    IF i > Len(args) THEN {}
    ELSE
      LET arg == args[i] IN
      IF StartsWith(arg, <<"-">>)
      THEN IF IsBlockedIpFlag(arg)
           THEN {Err("BlockedFlag", Some(arg), {})}
           ELSE IpScan(args, i + 1, has_object)
      ELSE IF ~has_object
           THEN IF Lower(arg) \notin ALLOWED_IP_OBJECTS
                THEN {Err("BlockedObject", Some(arg), ALLOWED_IP_OBJECTS)}
                ELSE IpScan(args, i + 1, TRUE)
           ELSE IpScan(args, i + 1, has_object)

\* validate_security_args: the ValueError it raises, {} when it returns self.
validate_security_args(self) ==
    IF self.command = ip
    THEN IpScan(ArgsOrEmpty(self.args), 1, FALSE)
    ELSE {}

\* SafeCommandInput(**r): the ValidationError, {} when the instance is built.
ValidationErrors(r) ==
    IF FieldErrors(r) # {} THEN FieldErrors(r)
    ELSE validate_security_args(FieldValues(r))

\* ------------------------------------------------------------- safe_command.py
ip_dangerous_keywords == {
    <<"s","e","t">>,
    <<"a","d","d">>,
    <<"d","e","l">>,
    <<"d","e","l","e","t","e">>,
    <<"c","h","a","n","g","e">>,
    <<"r","e","p","l","a","c","e">>,
    <<"f","l","u","s","h">>,
    <<"e","x","e","c">>,
    <<"t","a","p">>,
    <<"t","u","n">>,
    <<"n","e","t","n","s">> }

ifconfig_dangerous_keywords == {
    <<"u","p">>,
    <<"d","o","w","n">>,
    <<"a","d","d">>,
    <<"d","e","l">>,
    <<"m","e","t","r","i","c">>,
    <<"m","t","u">>,
    <<"n","e","t","m","a","s","k">>,
    <<"b","r","o","a","d","c","a","s","t">>,
    <<"p","o","i","n","t","o","p","o","i","n","t">>,
    <<"a","r","p">>,
    <<"p","r","o","m","i","s","c">> }

\* A variant without lower(): arg in keywords
IsKeywordExactCase(arg, keywords) == arg \in keywords

\* for arg in args: if arg.lower() in keywords: return ...  (the first hit)
IsKeyword(arg, keywords) == Lower(arg) \in keywords

FirstKeyword(args, keywords) ==
    LET hits == {i \in 1..Len(args) : IsKeyword(args[i], keywords)} IN
    IF hits = {} THEN None
    ELSE Some(args[CHOOSE i \in hits : \A j \in hits : i <= j])

\* not arg.startswith("-")
IsPositional(arg) == ~StartsWith(arg, <<"-">>)

\* A variant that looks at the first argument only.
HasPositionalFirstOnly(args) == args # <<>> /\ IsPositional(args[1])

\* for arg in args: if not arg.startswith("-"): return ...
HasPositional(args) == \E i \in 1..Len(args) : IsPositional(args[i])

\* A variant without the per-command rules.
validate_safe_args_unchecked(command, args) == None

\* validate_safe_args: None when safe, else the message returned.
validate_safe_args(command, args) ==
    IF IsNone(args) \/ Val(args) = <<>> THEN None
    ELSE
      LET cmd == Lower(command)
          a   == Val(args)
      IN
      IF cmd = ip
      THEN IF IsNone(FirstKeyword(a, ip_dangerous_keywords)) THEN None
           ELSE Some(Err("SecurityViolation",
                         FirstKeyword(a, ip_dangerous_keywords), {}))
      ELSE IF cmd = ifconfig
      THEN IF IsNone(FirstKeyword(a, ifconfig_dangerous_keywords)) THEN None
           ELSE Some(Err("SecurityViolation",
                         FirstKeyword(a, ifconfig_dangerous_keywords), {}))
      ELSE IF cmd = hostname
      THEN IF HasPositional(a)
           THEN Some(Err("SettingHostname", None, {}))
           ELSE None
      ELSE None

\* shutil.which(cmd) when the command is installed: an absolute path to it.
which(cmd) == <<"/","u","s","r","/","b","i","n","/">> \o cmd

\* utils.handle_error: the text for an exception type; the generic text
\* cites the type's name.
handle_error(e) ==
    IF e = "PermissionError" THEN Err("PermissionDenied", None, {})
    ELSE IF e = "FileNotFoundError" THEN Err("FileOrResourceNotFound", None, {})
    ELSE IF e = "TimeoutError" THEN Err("OperationTimedOut", None, {})
    ELSE IF e = "ValueError" THEN Err("InvalidInput", None, {})
    ELSE Err("Error", Some(<<e>>), {})

\* ------------------------------------------------------------- requests
\* Raw command strings: allowlisted names, their case and whitespace
\* variants, near misses, the empty string and the length limits.
XString(n) == [i \in 1..n |-> "x"]

\* df between spaces: CommandMaxLength + 1 characters as written, two after
\* stripping.
PaddedCommand ==
    [i \in 1..(CommandMaxLength + 1) |->
        IF i = CommandMaxLength \div 2 THEN "d"
        ELSE IF i = CommandMaxLength \div 2 + 1 THEN "f"
        ELSE " "]

RawCommands == {
    <<"p","i","n","g">>, <<"P","I","N","G">>, <<" "," ","p","i","n","g"," "," ">>,
    <<"d","i","g">>, <<"s","s">>, <<"d","u">>, <<"l","s","o","f">>,
    <<"i","p">>, <<"I","p">>, ifconfig, hostname,
    <<"l","s","b","l","k">>, <<"d","f">>,
    <<"p","i","n">>, <<"p","i","n","g","6">>, <<"/","b","i","n","/","p","i","n","g">>,
    <<"r","m">>, <<>>, <<" ">>,
    XString(CommandMaxLength), XString(CommandMaxLength + 1), PaddedCommand }

\* Argument tokens tried with every command.
CommonTokens == {
    <<"-","a">>,
    <<"a",";","b">>,
    <<"$","(","i","d",")">> }

IpTokens == {
    <<"a","d","d","r">>, <<"A","d","d","r">>, <<"n","e","t","n","s">>,
    <<"n","e","t">>, <<"a","d","d">>, <<"s","h","o","w">>,
    <<"-","b">>, <<"-","B","a">>, <<"-","b","a","t","c","h">>,
    <<"-","b","r">>, <<" ","-","b">>, <<>> }

IfconfigTokens == {
    <<"e","t","h","0">>, <<"d","o","w","n">>, <<"D","o","w","n">>,
    <<"u","p">>, <<"s","h","u","t","d","o","w","n">>, <<"d","o","w","n",";","x">>,
    <<" ","u","p"," ">> }

HostnameTokens == {
    <<"n","e","w","n","a","m","e">>, <<"-","s">>, <<"-","F">>,
    <<"-","-","f","i","l","e","=","/","x">>, <<" ","-","s">>, <<>>, <<"-">> }

DigTokens == {
    <<"-","f">>, <<"-","f","f","i","l","e">>, <<"-","x">>, <<"h","o","s","t">>,
    <<"/","e","t","c","/","p","a","s","s","w","d">> }

PingTokens == {
    <<"-","f">>, <<"-","c","f">>, <<"-","c">>, <<"-","-","c","f">>,
    <<"4">>, <<"h","o","s","t">> }

SsTokens == {
    <<"-","D">>, <<"-","-","d","u","m","p">>, <<"-","F">>,
    <<"-","-","f","i","l","t","e","r">>, <<"-","K">>, <<"-","-","k","i","l","l">>,
    <<"-","N">>, <<"-","-","n","e","t">>, <<"-","t">> }

DuTokens == {
    <<"-","-","f","i","l","e","s","0","-","f","r","o","m">>,
    <<"-","-","f","i","l","e","s","0","-","f","r","o","m","=","x">>,
    <<"-","h">>, <<"/","v","a","r">> }

LsofTokens == { <<"+","D">>, <<"+","D","/">>, <<"-","i">>, <<"/">> }

\* The tokens a raw command is tried with.
TokensFor(command) ==
    IF command = ip THEN IpTokens \cup CommonTokens
    ELSE IF command = ifconfig THEN IfconfigTokens \cup CommonTokens
    ELSE IF command = hostname THEN HostnameTokens \cup CommonTokens
    ELSE IF command = <<"d","i","g">> THEN DigTokens
    ELSE IF command = <<"p","i","n","g">> THEN PingTokens \cup CommonTokens
    ELSE IF command = <<"s","s">> THEN SsTokens
    ELSE IF command = <<"d","u">> THEN DuTokens
    ELSE IF command = <<"l","s","o","f">> THEN LsofTokens
    ELSE IF Len(command) >= CommandMaxLength THEN CommonTokens
    ELSE CommonTokens \cup {<<"-","b">>, <<"d","o","w","n">>, <<"n","e","t","n","s">>,
                            <<"a","d","d","r">>, <<" ","-","f"," ">>}

SeqsUpTo(S, n) == UNION {[1..k -> S] : k \in 0..n}

\* A list of n flags, for the lists at and beyond max_items.
LongArgs(n) == [i \in 1..n |-> IF i % 2 = 1 THEN <<"-","a">> ELSE <<"-","l">>]

\* args: None, a list of at most MaxArgs tokens, or a list of MaxItems or
\* MaxItems + 1 flags.
ArgLists(command) ==
    {None}
    \cup {Some(a) : a \in SeqsUpTo(TokensFor(command), MaxArgs)}
    \cup {Some(LongArgs(MaxItems)), Some(LongArgs(MaxItems + 1))}

\* timeout: None, the default and the values around the limits.
Timeouts == {None, Some(TimeoutGe - 1), Some(TimeoutGe), Some(TimeoutLe), Some(TimeoutLe + 1)}

\* Exceptions subprocess.run can raise besides TimeoutExpired.
SpawnExceptions == {"PermissionError", "FileNotFoundError", "OSError"}

\* ------------------------------------------------------------- environment_inspect.py
\* Sensitive keywords for environment variable masking.
SENSITIVE_KEYWORDS == {
    <<"K","E","Y">>,
    <<"S","E","C","R","E","T">>,
    <<"P","A","S","S","W","O","R","D">>,
    <<"T","O","K","E","N">>,
    <<"A","U","T","H">>,
    <<"C","R","E","D","E","N","T","I","A","L">>,
    <<"P","R","I","V","A","T","E">>,
    <<"C","E","R","T","I","F","I","C","A","T","E">>,
    <<"S","I","G","N","A","T","U","R","E">> }

UpperChar(c) ==
    IF \E i \in 1..26 : LowerChars[i] = c
    THEN UpperChars[CHOOSE i \in 1..26 : LowerChars[i] = c]
    ELSE c

\* str.upper()
Upper(s) == [i \in 1..Len(s) |-> UpperChar(s[i])]

\* str.split(sep): the parts between the separators, empty parts included.
RECURSIVE Split(_, _)
Split(s, sep) ==
    IF \A i \in 1..Len(s) : s[i] # sep
    THEN <<s>>
    ELSE LET i == CHOOSE k \in 1..Len(s) :
                     s[k] = sep /\ \A j \in 1..(k - 1) : s[j] # sep
         IN <<SubSeq(s, 1, i - 1)>> \o Split(SubSeq(s, i + 1, Len(s)), sep)

\* sub in s
IsSubstring(sub, s) ==
    \E i \in 0..(Len(s) - Len(sub)) : SubSeq(s, i + 1, i + Len(sub)) = sub

\* A variant that matches a keyword anywhere in the name.
_is_sensitive_variable_substring(var_name) ==
    \E k \in SENSITIVE_KEYWORDS : IsSubstring(k, Upper(var_name))

\* parts = var_name.upper().split("_")
\* return any(part in SENSITIVE_KEYWORDS for part in parts)
_is_sensitive_variable(var_name) ==
    LET parts == Split(Upper(var_name), "_") IN
    \E i \in 1..Len(parts) : parts[i] \in SENSITIVE_KEYWORDS

\* "******** (masked for security)"
MASKED == <<"*","*","*","*","*","*","*","*"," ","(","m","a","s","k","e","d"," ",
            "f","o","r"," ","s","e","c","u","r","i","t","y",")">>

\* if params.pattern: if params.pattern.lower() not in key.lower(): continue
PassesFilter(pattern, key) ==
    \/ IsNone(pattern)
    \/ Val(pattern) = <<>>
    \/ IsSubstring(Lower(Val(pattern)), Lower(key))

\* A variant that stores the value of every variable.
ShownValueUnmasked(key, value) == value

\* env_vars[key]: the sentinel for a sensitive name, else the value.
ShownValue(key, value) ==
    IF _is_sensitive_variable(key) THEN MASKED ELSE value

\* The loop over os.environ.items(): the dict env_vars.
EnvVars(environ, pattern) ==
    [key \in {k \in DOMAIN environ : PassesFilter(pattern, k)} |->
        ShownValue(key, environ[key])]

\* ---- text as a sequence of pieces: a literal of the code (its text and
\* length; a cut literal keeps the first n characters of its text), or a
\* string of the data (a key, a value, a pattern) with its characters.
Lit(text, n) == [kind |-> "lit", text |-> text, s |-> <<>>, n |-> n]
Str(kind, s) == [kind |-> kind, text |-> "", s |-> s, n |-> Len(s)]
NL == Lit("\n", 1)

RECURSIVE TextLen(_)
TextLen(t) == IF t = <<>> THEN 0 ELSE Head(t).n + TextLen(Tail(t))

\* content[:m]
RECURSIVE Take(_, _)
Take(t, m) ==
    IF t = <<>> \/ m = 0 THEN <<>>
    ELSE LET p == Head(t) IN
         IF p.n <= m
         THEN <<p>> \o Take(Tail(t), m - p.n)
         ELSE <<[p EXCEPT !.n = m,
                          !.s = IF p.kind = "lit" THEN <<>> ELSE SubSeq(p.s, 1, m)]>>

\* "\n".join(lines)
RECURSIVE JoinLines(_)
JoinLines(lines) ==
    IF lines = <<>> THEN <<>>
    ELSE IF Len(lines) = 1 THEN lines[1]
    ELSE lines[1] \o <<NL>> \o JoinLines(Tail(lines))

\* The number of characters of str(n).
RECURSIVE DecimalLen(_)
DecimalLen(n) == IF n < 10 THEN 1 ELSE 1 + DecimalLen(n \div 10)

\* f"{n}"
Decimal(n) == Lit(ToString(n), DecimalLen(n))

\* A variant that also cuts content of exactly the limit.
check_character_limit_inclusive(content) ==
    IF TextLen(content) >= CHARACTER_LIMIT
    THEN Take(content, CHARACTER_LIMIT) \o
         << Lit("\n\n--- TRUNCATED ---\n", 20),
            Lit("Response exceeded ", 18), Decimal(CHARACTER_LIMIT), Lit(" characters. ", 13),
            Lit("Original size: ", 15), Decimal(TextLen(content)), Lit(" characters. ", 13),
            Lit("Consider using filters or limiting the scope of your query.", 59) >>
    ELSE content

\* utils.check_character_limit
check_character_limit(content) ==
    IF TextLen(content) > CHARACTER_LIMIT
    THEN Take(content, CHARACTER_LIMIT) \o
         << Lit("\n\n--- TRUNCATED ---\n", 20),
            Lit("Response exceeded ", 18), Decimal(CHARACTER_LIMIT), Lit(" characters. ", 13),
            Lit("Original size: ", 15), Decimal(TextLen(content)), Lit(" characters. ", 13),
            Lit("Consider using filters or limiting the scope of your query.", 59) >>
    ELSE content

\* ---- sorted(env_vars.keys()): strings in code point order.
CodePointOrder ==
    <<"0","1","2","3","4","5","6","7","8","9">> \o UpperChars \o <<"_">> \o LowerChars

Ord(c) == CHOOSE i \in 1..Len(CodePointOrder) : CodePointOrder[i] = c

RECURSIVE StrLess(_, _)
StrLess(a, b) ==
    IF b = <<>> THEN FALSE
    ELSE IF a = <<>> THEN TRUE
    ELSE IF Head(a) = Head(b) THEN StrLess(Tail(a), Tail(b))
    ELSE Ord(Head(a)) < Ord(Head(b))

Sorted(S) ==
    CHOOSE q \in [1..Cardinality(S) -> S] :
        \A i, j \in 1..Cardinality(S) : i < j => StrLess(q[i], q[j])

\* A variant that cuts a value of ValueDisplayLimit characters too.
DisplayValueFrom(value) ==
    IF Len(value) >= ValueDisplayLimit
    THEN <<Str("value", SubSeq(value, 1, ValueDisplayLimit)), Lit("... (truncated)", 15)>>
    ELSE <<Str("value", value)>>

\* if len(value) > 200: value = value[:200] + "... (truncated)"
DisplayValue(value) ==
    IF Len(value) > ValueDisplayLimit
    THEN <<Str("value", SubSeq(value, 1, ValueDisplayLimit)), Lit("... (truncated)", 15)>>
    ELSE <<Str("value", value)>>

\* The three lines of one variable; "FENCE" stands for the three
\* backquotes of a code fence.
EntryLines(key, value) ==
    << <<Lit("**", 2), Str("key", key), Lit(":**", 3)>>,
       <<Lit("FENCE\n", 4)>> \o DisplayValue(value) \o <<Lit("\nFENCE", 4)>>,
       <<>> >>

RECURSIVE EntriesLines(_, _)
EntriesLines(keys, env_vars) ==
    IF keys = <<>> THEN <<>>
    ELSE EntryLines(Head(keys), env_vars[Head(keys)]) \o EntriesLines(Tail(keys), env_vars)

\* The development tools section; the version of a tool is text the tool
\* printed, of which the model keeps the length.
DevToolsLines(tools) ==
    IF IsNone(tools) THEN <<>>
    ELSE << <<Lit("## Installed Development Tools", 30)>>,
            <<Lit("- **", 4), Str("tool", Val(tools).tool), Lit(":** ", 4),
              Lit("version", Val(tools).version)>>,
            <<>> >>

\* if params.pattern: lines.append(f"**Filter:** '{params.pattern}'")
FilterLines(pattern) ==
    IF IsNone(pattern) \/ Val(pattern) = <<>>
    THEN <<>>
    ELSE << <<Lit("**Filter:** '", 13), Str("pattern", Val(pattern)), Lit("'", 1)>> >>

\* The lines of the Markdown branch.
MarkdownLines(env_vars, tools, pattern) ==
    << <<Lit("# Environment Analysis", 22)>>, <<>> >>
    \o DevToolsLines(tools)
    \o << <<Lit("## Environment Variables", 24)>> >>
    \o FilterLines(pattern)
    \o << <<Lit("**Count:** ", 11), Decimal(Cardinality(DOMAIN env_vars))>>, <<>> >>
    \o (IF DOMAIN env_vars # {}
        THEN EntriesLines(Sorted(DOMAIN env_vars), env_vars)
        ELSE << <<Lit("*No matching environment variables found*", 41)>> >>)

\* ---- json.dumps: a string is written between quotes with the quote, the
\* backslash and the line feed escaped.
JsonEscapeChar(c) ==
    IF c = "\"" THEN <<"\\", "\"">>
    ELSE IF c = "\\" THEN <<"\\", "\\">>
    ELSE IF c = "\n" THEN <<"\\", "n">>
    ELSE <<c>>

\* The escaped characters of s, computed half by half.
RECURSIVE JsonEscape(_)
JsonEscape(s) ==
    IF s = <<>> THEN <<>>
    ELSE IF Len(s) = 1 THEN JsonEscapeChar(s[1])
    ELSE LET h == Len(s) \div 2 IN
         JsonEscape(SubSeq(s, 1, h)) \o JsonEscape(SubSeq(s, h + 1, Len(s)))

JsonString(s) == <<"\"">> \o JsonEscape(s) \o <<"\"">>

\* The document of the JSON branch, member by member.
JsonDocument(env_vars, tools, pattern) ==
    [dev_tools |-> tools,
     environment_variables |-> [k \in DOMAIN env_vars |-> JsonString(env_vars[k])],
     filter |-> pattern,
     count |-> Cardinality(DOMAIN env_vars)]

\* troubleshooting_inspect_environment: the string it returns.
inspect_environment(environ, search, tools) ==
    LET env_vars == EnvVars(environ, search.pattern) IN
    IF search.response_format = "markdown"
    THEN [format |-> "markdown",
          text   |-> check_character_limit(
                         JoinLines(MarkdownLines(env_vars, tools, search.pattern))),
          data   |-> None]
    ELSE [format |-> "json",
          text   |-> <<>>,
          data   |-> Some(JsonDocument(env_vars, tools, search.pattern))]

\* ---- the environments and the calls of the tool
\* Variable names: keywords as whole parts, inside longer words, in mixed
\* case, between doubled and outer underscores.
EnvNames == {
    <<"A","p","i","_","K","e","y">>,
    <<"K","E","Y","B","O","A","R","D">>,
    <<"M","O","N","K","E","Y","_","B","U","S","I","N","E","S","S">>,
    <<"A","U","T","H","O","R","S">>,
    <<"S","E","C","R","E","T","A","R","Y">>,
    <<"M","Y","_","_","S","E","C","R","E","T","_","_","K","E","Y">>,
    <<"_","T","O","K","E","N","_">> }

\* Values: short, with characters JSON escapes, and at and beyond the
\* length the Markdown branch displays in full.
EnvValues == {
    <<"b","\"","\\">>,
    XString(ValueDisplayLimit),
    XString(ValueDisplayLimit + 1) }

\* os.environ: at most MaxEnvVars variables.
Environments ==
    UNION {[D -> EnvValues] :
              D \in {X \in SUBSET EnvNames : Cardinality(X) <= MaxEnvVars}}

\* params.pattern: absent, or a pattern in mixed case.
Patterns == {None, Some(<<"K","e","y">>)}

ResponseFormats == {"markdown", "json"}

\* dev_tools: no tool found, or git with a first line of output that brings
\* the text close to, or beyond, the character limit.
DevTools ==
    {None,
     Some([tool |-> <<"g","i","t">>, version |-> CHARACTER_LIMIT - NearLimitMargin]),
     Some([tool |-> <<"g","i","t">>, version |-> CHARACTER_LIMIT])}

\* ------------------------------------------------------------- state machine
NoRequest == [command |-> <<>>, args |-> None, timeout |-> None]
NoParams == [command |-> <<>>, args |-> None, timeout |-> None]
NoSearch == [pattern |-> None, response_format |-> "markdown"]
NoLogParams == [file_path |-> None, lines |-> None, search_pattern |-> None]
NoProcessSearch == [pattern |-> None, limit |-> None, response_format |-> "markdown"]

\* No call of any tool is in progress.
Idle ==
    /\ pc = "idle"
    /\ request = NoRequest
    /\ params = NoParams
    /\ errors = {}
    /\ response = None
    /\ argv = None
    /\ env_pc = "idle"
    /\ search_params = NoSearch
    /\ is_sensitive = <<>>
    /\ dev_tools = None
    /\ result = None
    /\ log_pc = "idle"
    /\ log_params = NoLogParams
    /\ log_result = None
    /\ proc_pc = "idle"
    /\ search_request = NoProcessSearch
    /\ search_result = None
    /\ limit_pc = "idle"
    /\ content_out = None

\* The server of the safe-command calls: its environment, the files and
\* the other processes of the host play no part.
Init ==
    /\ Idle
    /\ os_environ = <<>>
    /\ filesystem = <<>>
    /\ process_iter = <<>>
    /\ content_in = <<>>

\* The server of the environment inspections: the process was started in
\* one of the environments.
InitEnvironment ==
    /\ Idle
    /\ os_environ \in Environments
    /\ filesystem = <<>>
    /\ process_iter = <<>>
    /\ content_in = <<>>

\* SafeCommandInput(command=..., args=..., timeout=...): the request handling
\* layer builds the input model; a ValidationError ends the call.
Construct(command, args, timeout) ==
    LET r == [command |-> command, args |-> args, timeout |-> timeout] IN
    /\ pc = "idle"
    /\ request' = r
    /\ errors' = ValidationErrors(r)
    /\ IF ValidationErrors(r) = {}
       THEN pc' = "validated" /\ params' = FieldValues(r)
       ELSE pc' = "rejected" /\ params' = NoParams
    /\ UNCHANGED <<response, argv>>
    /\ UNCHANGED <<environmentVars, logVars, processVars, limitVars>>

\* A variant without the outer except: the TypeError of the concatenation
\* reaches the caller.
ExecuteUncaught(found) ==
    /\ pc = "validated"
    /\ IF ~found
       THEN /\ response' = Some(Err("NotFound", Some(params.command), {}))
            /\ pc' = "done"
            /\ argv' = None
       ELSE IF ~IsNone(validate_safe_args(params.command, params.args))
       THEN /\ response' = validate_safe_args(params.command, params.args)
            /\ pc' = "done"
            /\ argv' = None
       ELSE IF IsNone(params.args)
       THEN /\ response' = None
            /\ pc' = "aborted"
            /\ argv' = None
       ELSE /\ argv' = Some(<<which(params.command)>> \o Val(params.args))
            /\ pc' = "running"
            /\ response' = None
    /\ UNCHANGED <<request, params, errors>>
    /\ UNCHANGED <<environmentVars, logVars, processVars, limitVars>>

\* troubleshooting_execute_safe_command up to subprocess.run: the lookup of
\* the binary (found or not on this host), validate_safe_args, cmd_list.
Execute(found) ==
    /\ pc = "validated"
    /\ IF ~found
       THEN /\ response' = Some(Err("NotFound", Some(params.command), {}))
            /\ pc' = "done"
            /\ argv' = None
       ELSE IF ~IsNone(validate_safe_args(params.command, params.args))
       THEN /\ response' = validate_safe_args(params.command, params.args)
            /\ pc' = "done"
            /\ argv' = None
       ELSE IF IsNone(params.args)
       THEN \* [command_path] + None raises TypeError, caught by except Exception
            /\ response' = Some(handle_error("TypeError"))
            /\ pc' = "done"
            /\ argv' = None
       ELSE /\ argv' = Some(<<which(params.command)>> \o Val(params.args))
            /\ pc' = "running"
            /\ response' = None
    /\ UNCHANGED <<request, params, errors>>
    /\ UNCHANGED <<environmentVars, logVars, processVars, limitVars>>

\* The child exits; the output is formatted and returned.
Complete ==
    /\ pc = "running"
    /\ response' = Some(Err("Output", None, {}))
    /\ pc' = "done"
    /\ UNCHANGED <<request, params, errors, argv>>
    /\ UNCHANGED <<environmentVars, logVars, processVars, limitVars>>

\* subprocess.TimeoutExpired: raised only when a timeout was given.
TimeoutExpired ==
    /\ pc = "running"
    /\ ~IsNone(params.timeout)
    /\ response' = Some(Err("TimedOut", None, {}))
    /\ pc' = "done"
    /\ UNCHANGED <<request, params, errors, argv>>
    /\ UNCHANGED <<environmentVars, logVars, processVars, limitVars>>

\* subprocess.run raises; except Exception returns handle_error(e).
Raise(e) ==
    /\ pc = "running"
    /\ response' = Some(handle_error(e))
    /\ pc' = "done"
    /\ UNCHANGED <<request, params, errors, argv>>
    /\ UNCHANGED <<environmentVars, logVars, processVars, limitVars>>

\* The call has returned; the server waits for the next request.
Return ==
    /\ pc \in {"rejected", "done"}
    /\ pc' = "idle"
    /\ request' = NoRequest
    /\ params' = NoParams
    /\ errors' = {}
    /\ response' = None
    /\ argv' = None
    /\ UNCHANGED <<environmentVars, logVars, processVars, limitVars>>

\* troubleshooting_inspect_environment(params): the loop over os.environ,
\* the version of the development tools as found on the host, and the text
\* in the requested format.
InspectEnvironment(pattern, response_format, found_tools) ==
    LET p == [pattern |-> pattern, response_format |-> response_format] IN
    /\ env_pc = "idle"
    /\ search_params' = p
    /\ is_sensitive' = [key \in {k \in DOMAIN os_environ : PassesFilter(pattern, k)} |->
                           _is_sensitive_variable(key)]
    /\ dev_tools' = found_tools
    /\ result' = Some(inspect_environment(os_environ, p, found_tools))
    /\ env_pc' = "done"
    /\ UNCHANGED os_environ
    /\ UNCHANGED <<commandVars, logVars, processVars, limitVars>>

\* The text has been returned; the server waits for the next call.
ReturnEnvironment ==
    /\ env_pc = "done"
    /\ env_pc' = "idle"
    /\ search_params' = NoSearch
    /\ is_sensitive' = <<>>
    /\ dev_tools' = None
    /\ result' = None
    /\ UNCHANGED os_environ
    /\ UNCHANGED <<commandVars, logVars, processVars, limitVars>>

Next ==
    \/ /\ pc = "idle"
       /\ \E command \in RawCommands :
            \E args \in ArgLists(command) :
              \E timeout \in Timeouts : Construct(command, args, timeout)
    \/ \E found \in BOOLEAN : Execute(found)
    \/ Complete
    \/ TimeoutExpired
    \/ \E e \in SpawnExceptions : Raise(e)
    \/ Return

Spec == Init /\ [][Next]_vars

NextEnvironment ==
    \/ /\ env_pc = "idle"
       /\ \E pattern \in Patterns :
            \E response_format \in ResponseFormats :
              \E found_tools \in DevTools :
                InspectEnvironment(pattern, response_format, found_tools)
    \/ ReturnEnvironment

SpecEnvironment == InitEnvironment /\ [][NextEnvironment]_vars

\* ------------------------------------------------------------- log reader
\* constants.COMMON_LOG_PATHS
COMMON_LOG_PATHS == <<
    <<"/","v","a","r","/","l","o","g","/","s","y","s","l","o","g">>,
    <<"/","v","a","r","/","l","o","g","/","m","e","s","s","a","g","e","s">>,
    <<"/","v","a","r","/","l","o","g","/","k","e","r","n",".","l","o","g">>,
    <<"/","v","a","r","/","l","o","g","/","a","u","t","h",".","l","o","g">>,
    <<"/","v","a","r","/","l","o","g","/","a","p","a","c","h","e","2","/","e","r","r","o","r",".","l","o","g">>,
    <<"/","v","a","r","/","l","o","g","/","n","g","i","n","x","/","e","r","r","o","r",".","l","o","g">>,
    <<"/","v","a","r","/","l","o","g","/","m","y","s","q","l","/","e","r","r","o","r",".","l","o","g">>,
    <<"C",":","/","W","i","n","d","o","w","s","/","S","y","s","t","e","m","3","2","/","w","i","n","e","v","t","/","L","o","g","s","/","S","y","s","t","e","m",".","e","v","t","x">>,
    <<"C",":","/","W","i","n","d","o","w","s","/","S","y","s","t","e","m","3","2","/","w","i","n","e","v","t","/","L","o","g","s","/","A","p","p","l","i","c","a","t","i","o","n",".","e","v","t","x">> >>

\* chunk_size of the tail reading.
ChunkSize == 8192

\* The directories of the host, as sequences of path components.
Directories == {
    <<>>,
    << <<"v","a","r">> >>,
    << <<"v","a","r">>, <<"l","o","g">> >>,
    << <<"e","t","c">> >>,
    << <<"t","m","p">> >> }

\* The path the operating system reaches from directory cur along the
\* components rest: an empty component and "." stay, ".." goes to the
\* parent, a name enters the directory; none when a component is looked up
\* in something that is not a directory.
RECURSIVE Walk(_, _)
Walk(cur, rest) ==
    IF rest = <<>> THEN Some(cur)
    ELSE IF cur \notin Directories THEN None
    ELSE IF Head(rest) \in {<<>>, <<".">>} THEN Walk(cur, Tail(rest))
    ELSE IF Head(rest) = <<".", ".">>
         THEN Walk(IF cur = <<>> THEN cur ELSE SubSeq(cur, 1, Len(cur) - 1), Tail(rest))
    ELSE Walk(cur \o <<Head(rest)>>, Tail(rest))

\* Path(file_path) as the operating system resolves it; a relative path
\* starts at the working directory, here the root.
ResolvedPath(file_path) == Walk(<<>>, Split(file_path, "/"))

\* Path.exists()
Exists(fs, file_path) ==
    LET r == ResolvedPath(file_path) IN
    ~IsNone(r) /\ (Val(r) \in Directories \/ Val(r) \in DOMAIN fs)

\* Path.is_file()
IsFile(fs, file_path) ==
    LET r == ResolvedPath(file_path) IN ~IsNone(r) /\ Val(r) \in DOMAIN fs

\* The file at file_path: whether this process may read it and its lines,
\* each ended by a line feed in the file.
FileAt(fs, file_path) == fs[Val(ResolvedPath(file_path))]

\* os.path.getsize
RECURSIVE FileSize(_)
FileSize(file_lines) ==
    IF file_lines = <<>> THEN 0 ELSE Len(Head(file_lines)) + 1 + FileSize(Tail(file_lines))

\* The lines readlines() returns after f.seek(skip): the first may be the
\* rest of a line.
RECURSIVE ReadLinesFrom(_, _)
ReadLinesFrom(file_lines, skip) ==
    IF skip = 0 \/ file_lines = <<>> THEN file_lines
    ELSE IF skip > Len(Head(file_lines))
         THEN ReadLinesFrom(Tail(file_lines), skip - Len(Head(file_lines)) - 1)
    ELSE <<SubSeq(Head(file_lines), skip + 1, Len(Head(file_lines)))>> \o Tail(file_lines)

\* lines_list[-n:]
LastLines(lines_list, n) ==
    SubSeq(lines_list, IF Len(lines_list) > n THEN Len(lines_list) - n + 1 ELSE 1,
           Len(lines_list))

Min(a, b) == IF a < b THEN a ELSE b

\* The tail reading: seek to the end, go back min(chunk_size * lines,
\* file_size) characters and keep the last lines of what follows.
TailLines(file_lines, n) ==
    LET file_size == FileSize(file_lines)
        offset == Min(ChunkSize * n, file_size)
    IN  IF file_size > 0
        THEN LastLines(ReadLinesFrom(file_lines, file_size - offset), n)
        ELSE <<>>

\* [line for line in lines_list if pattern in line.lower()]
RECURSIVE FilterLog(_, _)
FilterLog(lines_list, pattern) ==
    IF lines_list = <<>> THEN <<>>
    ELSE (IF IsSubstring(pattern, Lower(Head(lines_list)))
          THEN <<Head(lines_list)>> ELSE <<>>)
         \o FilterLog(Tail(lines_list), pattern)

\* A string that is absent or empty is false in a condition.
Given(o) == ~IsNone(o) /\ Val(o) # <<>>

\* utils.format_bytes for a number of bytes: the value in the first unit in
\* which it is below 1024, with two decimals, rounded half to even.
RECURSIVE UnitOf(_, _)
UnitOf(bytes_value, unit) ==
    IF unit = 5 \/ bytes_value < 1024 THEN unit ELSE UnitOf(bytes_value \div 1024, unit + 1)

RECURSIVE Power(_, _)
Power(b, e) == IF e = 0 THEN 1 ELSE b * Power(b, e - 1)

Units == <<"B", "KB", "MB", "GB", "TB", "PB">>

format_bytes(bytes_value) ==
    LET unit == UnitOf(bytes_value, 0)
        d == Power(1024, unit)
        q == (bytes_value * 100) \div d
        r == (bytes_value * 100) % d
        h == IF 2 * r > d \/ (2 * r = d /\ q % 2 = 1) THEN q + 1 ELSE q
    IN  << Decimal(h \div 100), Lit(".", 1), Decimal((h % 100) \div 10), Decimal(h % 10),
           Lit(" ", 1), Lit(Units[unit + 1], IF unit = 0 THEN 1 ELSE 2) >>

\* The lines of one entry of the listing of common log files; the status is
\* one character, the check mark or the ballot x, and the time of the last
\* change is text of 19 characters.
FoundLogLines(fs, log_path) ==
    LET f == FileAt(fs, log_path) IN
    << <<Lit(IF f.readable THEN "CHECK MARK" ELSE "BALLOT X", 1), Lit(" **", 3), Str("path", log_path),
         Lit("**", 2)>>,
       <<Lit("  - Size: ", 10)>> \o format_bytes(FileSize(f.lines)),
       <<Lit("  - Modified: ", 14), Lit("format_timestamp(mtime)", 19)>>,
       <<>> >>

RECURSIVE FoundLogsLines(_, _)
FoundLogsLines(fs, paths) ==
    IF paths = <<>> THEN <<>>
    ELSE (IF Exists(fs, Head(paths)) /\ IsFile(fs, Head(paths))
          THEN FoundLogLines(fs, Head(paths)) ELSE <<>>)
         \o FoundLogsLines(fs, Tail(paths))

\* The branch without a file path: the common log files of the host.
ListCommonLogs(fs) ==
    LET found == FoundLogsLines(fs, COMMON_LOG_PATHS) IN
    << <<Lit("# Common Log File Locations", 27)>>, <<>>, <<Lit("## Available Logs", 17)>> >>
    \o (IF found # <<>> THEN found
        ELSE << <<Lit("No common log files found on this system.", 41)>> >>)
    \o << <<Lit("\n*Use file_path parameter to read a specific log file*", 54)>> >>

\* The lines of the text for the lines read.
RECURSIVE RStripLines(_)
RStripLines(lines_list) ==
    IF lines_list = <<>> THEN <<>>
    ELSE << <<Str("line", RStrip(Head(lines_list)))>> >> \o RStripLines(Tail(lines_list))

LogOutput(p, lines_list) ==
    << <<Lit("# Log File: ", 12), Str("path", Val(p.file_path))>>,
       <<Lit("**Lines:** ", 11), Decimal(Len(lines_list)), Lit(" (last ", 7),
         Decimal(Val(p.lines)), Lit(" requested)", 11)>>,
       <<>> >>
    \o (IF Given(p.search_pattern)
        THEN << <<Lit("**Filtered by:** '", 18), Str("pattern", Val(p.search_pattern)),
                  Lit("'", 1)>>,
                <<>> >>
        ELSE <<>>)
    \o << <<Lit("FENCE", 3)>> >>
    \o RStripLines(lines_list)
    \o << <<Lit("FENCE", 3)>> >>

LogResult(kind, text) == [kind |-> kind, text |-> text, error |-> None]

\* troubleshooting_read_log_file: the string it returns, with the branch
\* that produced it.  With lines absent the tail reading of a file that is
\* not empty raises TypeError, in the reading and again in its fallback.
read_log_file(fs, p) ==
    IF ~Given(p.file_path)
    THEN LogResult("listing", JoinLines(ListCommonLogs(fs)))
    ELSE IF ~Exists(fs, Val(p.file_path))
    THEN LogResult("not_found",
                   <<Lit("Error: Log file not found: ", 27), Str("path", Val(p.file_path))>>)
    ELSE IF ~IsFile(fs, Val(p.file_path))
    THEN LogResult("not_a_file",
                   <<Lit("Error: Path is not a file: ", 27), Str("path", Val(p.file_path))>>)
    ELSE IF ~FileAt(fs, Val(p.file_path)).readable
    THEN LogResult("permission_denied",
                   <<Lit("Error: Permission denied. Cannot read file: ", 44),
                     Str("path", Val(p.file_path))>>)
    ELSE LET file_lines == FileAt(fs, Val(p.file_path)).lines IN
         IF IsNone(p.lines) /\ FileSize(file_lines) > 0
         THEN [kind |-> "error", text |-> <<>>, error |-> Some(handle_error("TypeError"))]
         ELSE LET tail == IF IsNone(p.lines) THEN <<>> ELSE TailLines(file_lines, Val(p.lines))
                  lines_list == IF Given(p.search_pattern)
                                THEN FilterLog(tail, Lower(Val(p.search_pattern)))
                                ELSE tail
              IN  IF lines_list = <<>>
                  THEN IF Given(p.search_pattern)
                       THEN LogResult("no_match",
                                      <<Lit("No matching entries found for pattern: '", 40),
                                        Str("pattern", Val(p.search_pattern)), Lit("'", 1)>>)
                       ELSE LogResult("empty",
                                      <<Lit("Log file is empty or no lines to display", 40)>>)
                  ELSE LogResult("content",
                                 check_character_limit(JoinLines(LogOutput(p, lines_list))))

\* ---- the hosts and the calls of the log reader
SyslogPath == << <<"v","a","r">>, <<"l","o","g">>, <<"s","y","s","l","o","g">> >>
PasswdPath == << <<"e","t","c">>, <<"p","a","s","s","w","d">> >>
SecretPath == << <<"t","m","p">>, <<"s","e","c","r","e","t",".","t","x","t">> >>

File(readable, file_lines) == [readable |-> readable, lines |-> file_lines]

\* /var/log/syslog: two short lines, the same unreadable, an empty file,
\* or lines longer than a chunk.
SyslogFiles == {
    File(TRUE,  << <<"b","o","o","t"," ","o","k"," "," ">>, <<"E","R","R","O","R"," ","d","i","s","k">> >>),
    File(FALSE, << <<"b","o","o","t"," ","o","k"," "," ">>, <<"E","R","R","O","R"," ","d","i","s","k">> >>),
    File(TRUE,  <<>>),
    File(TRUE,  << <<"h","e","a","d">>, XString(ChunkSize + 1), XString(ChunkSize + 1),
                   XString(ChunkSize + 1), XString(ChunkSize + 1) >>) }

PasswdFiles == { File(TRUE, << <<"r","o","o","t",":","x",":","0",":","0",":","r","o","o","t",":","/","r","o","o","t",":","/","b","i","n","/","s","h">> >>) }
SecretFiles == { File(TRUE, << <<"s","e","c","r","e","t">> >>) }

\* The files of a host: each of the three is present or not.
HostFileSystems ==
    {fs \in UNION {[D -> SyslogFiles \cup PasswdFiles \cup SecretFiles] :
                      D \in SUBSET {SyslogPath, PasswdPath, SecretPath}} :
        /\ SyslogPath \in DOMAIN fs => fs[SyslogPath] \in SyslogFiles
        /\ PasswdPath \in DOMAIN fs => fs[PasswdPath] \in PasswdFiles
        /\ SecretPath \in DOMAIN fs => fs[SecretPath] \in SecretFiles}

\* params.file_path: absent, empty, a log file, a path that leaves the log
\* directory through "..", a file elsewhere, a directory, a missing file,
\* a path through a file and a relative path.
FilePaths == {
    None,
    Some(<<>>),
    Some(<<"/","v","a","r","/","l","o","g","/","s","y","s","l","o","g">>),
    Some(<<"/","v","a","r","/","l","o","g","/",".",".","/",".",".","/","e","t","c","/","p","a","s","s","w","d">>),
    Some(<<"/","t","m","p","/","s","e","c","r","e","t",".","t","x","t">>),
    Some(<<"/","v","a","r","/","l","o","g">>),
    Some(<<"/","v","a","r","/","l","o","g","/","m","i","s","s","i","n","g",".","l","o","g">>),
    Some(<<"/","v","a","r","/","l","o","g","/","s","y","s","l","o","g","/","x">>),
    Some(<<"v","a","r","/","l","o","g","/",".","/","s","y","s","l","o","g">>) }

\* params.lines: absent, or within ge=1, le=1000.
LineCounts == {None, Some(1), Some(4)}

\* params.search_pattern
SearchPatterns == {None, Some(<<"E","r","r","o","r">>)}

\* The server of the log readings, on one of the hosts.
InitLogReader ==
    /\ Idle
    /\ os_environ = <<>>
    /\ filesystem \in HostFileSystems
    /\ process_iter = <<>>
    /\ content_in = <<>>

\* troubleshooting_read_log_file(params)
ReadLogFile(file_path, lines, search_pattern) ==
    LET p == [file_path |-> file_path, lines |-> lines, search_pattern |-> search_pattern] IN
    /\ log_pc = "idle"
    /\ log_params' = p
    /\ log_result' = Some(read_log_file(filesystem, p))
    /\ log_pc' = "done"
    /\ UNCHANGED filesystem
    /\ UNCHANGED <<commandVars, environmentVars, processVars, limitVars>>

\* The text has been returned; the server waits for the next call.
ReturnLog ==
    /\ log_pc = "done"
    /\ log_pc' = "idle"
    /\ log_params' = NoLogParams
    /\ log_result' = None
    /\ UNCHANGED filesystem
    /\ UNCHANGED <<commandVars, environmentVars, processVars, limitVars>>

NextLogReader ==
    \/ /\ log_pc = "idle"
       /\ \E file_path \in FilePaths :
            \E lines \in LineCounts :
              \E search_pattern \in SearchPatterns :
                ReadLogFile(file_path, lines, search_pattern)
    \/ ReturnLog

SpecLogReader == InitLogReader /\ [][NextLogReader]_vars

\* ------------------------------------------------------------- process search
\* " ".join(items)
RECURSIVE JoinWith(_, _)
JoinWith(items, sep) ==
    IF items = <<>> THEN <<>>
    ELSE IF Len(items) = 1 THEN items[1]
    ELSE items[1] \o sep \o JoinWith(Tail(items), sep)

\* pinfo["cmdline"][:3]
FirstThree(cmdline) == SubSeq(cmdline, 1, Min(3, Len(cmdline)))

\* An empty or absent command line is false in a condition.
HasCmdline(pinfo) == ~IsNone(pinfo.cmdline) /\ Val(pinfo.cmdline) # <<>>

\* The pattern filter of the loop, for a process with a name.
MatchesPattern(pattern, pinfo) ==
    LET pattern_lower == Lower(pattern) IN
    \/ IsSubstring(pattern_lower, Lower(Val(pinfo.name)))
    \/ /\ HasCmdline(pinfo)
       /\ IsSubstring(pattern_lower, Lower(JoinWith(Val(pinfo.cmdline), <<" ">>)))

\* The entry appended for a process: the command line is the first three
\* arguments joined by spaces, or the name when there is none.  cpu_percent
\* is in tenths of a percent.
ProcessEntry(pinfo) ==
    LET mem_bytes == IF IsNone(pinfo.memory_info) THEN 0 ELSE Val(pinfo.memory_info) IN
    [pid |-> pinfo.pid,
     name |-> pinfo.name,
     cpu_percent |-> IF IsNone(pinfo.cpu_percent) THEN 0 ELSE Val(pinfo.cpu_percent),
     memory_bytes |-> mem_bytes,
     memory_formatted |-> format_bytes(mem_bytes),
     status |-> pinfo.status,
     cmdline |-> IF HasCmdline(pinfo)
                 THEN Some(JoinWith(FirstThree(Val(pinfo.cmdline)), <<" ">>))
                 ELSE pinfo.name]

\* The processes the loop keeps, in the order of the iteration.
RECURSIVE MatchingProcesses(_, _)
MatchingProcesses(procs, pattern) ==
    IF procs = <<>> THEN <<>>
    ELSE (IF Given(pattern) /\ ~MatchesPattern(Val(pattern), Head(procs))
          THEN <<>> ELSE <<ProcessEntry(Head(procs))>>)
         \o MatchingProcesses(Tail(procs), pattern)

\* processes.sort(key=cpu_percent, reverse=True): descending, entries of
\* equal usage in their order of arrival.
RECURSIVE SortByCpu(_)
SortByCpu(entries) ==
    IF entries = <<>> THEN <<>>
    ELSE LET top == CHOOSE i \in 1..Len(entries) :
                        /\ \A j \in 1..Len(entries) :
                               entries[j].cpu_percent <= entries[i].cpu_percent
                        /\ \A j \in 1..(i - 1) :
                               entries[j].cpu_percent < entries[i].cpu_percent
         IN  <<entries[top]>>
             \o SortByCpu(SubSeq(entries, 1, top - 1) \o SubSeq(entries, top + 1, Len(entries)))

\* processes[: params.limit]
Limited(entries, limit) ==
    IF IsNone(limit) THEN entries ELSE SubSeq(entries, 1, Min(Val(limit), Len(entries)))

\* f"{value}" of a string that may be None, and of the limit.
OptionalStr(kind, o) == IF IsNone(o) THEN Lit("None", 4) ELSE Str(kind, Val(o))
OptionalInt(o) == IF IsNone(o) THEN Lit("None", 4) ELSE Decimal(Val(o))

\* The lines of one process in the Markdown branch.
ProcessLines(entry) ==
    << <<Lit("## ", 3), OptionalStr("name", entry.name), Lit(" (PID: ", 7),
         Decimal(entry.pid), Lit(")", 1)>>,
       <<Lit("- **CPU:** ", 11), Decimal(entry.cpu_percent \div 10), Lit(".", 1),
         Decimal(entry.cpu_percent % 10), Lit("%", 1)>>,
       <<Lit("- **Memory:** ", 14)>> \o entry.memory_formatted,
       <<Lit("- **Status:** ", 14), Str("status", entry.status)>>,
       <<Lit("- **Command:** BQ", 16), OptionalStr("cmdline", entry.cmdline), Lit("BQ", 1)>>,
       <<>> >>

RECURSIVE ProcessesLines(_)
ProcessesLines(entries) ==
    IF entries = <<>> THEN <<>>
    ELSE ProcessLines(Head(entries)) \o ProcessesLines(Tail(entries))

ProcessMarkdownLines(entries, p) ==
    << <<Lit("# Running Processes", 19)>>, <<>> >>
    \o FilterLines(p.pattern)
    \o << <<Lit("**Count:** ", 11), Decimal(Len(entries)), Lit(" (limit: ", 9),
            OptionalInt(p.limit), Lit(")", 1)>>,
          <<>> >>
    \o ProcessesLines(entries)

\* The document of the JSON branch, member by member.
OptionalJson(o) == IF IsNone(o) THEN None ELSE Some(JsonString(Val(o)))

ProcessJson(entries, p) ==
    [total_found |-> Len(entries),
     limit |-> p.limit,
     filter |-> OptionalJson(p.pattern),
     processes |-> [i \in 1..Len(entries) |->
                       [entries[i] EXCEPT !.name = OptionalJson(entries[i].name),
                                          !.status = JsonString(entries[i].status),
                                          !.cmdline = OptionalJson(entries[i].cmdline)]]]

SearchResult(kind, text, data) == [kind |-> kind, text |-> text, data |-> data, error |-> None]

\* troubleshooting_search_processes: the string it returns.  A process
\* whose name psutil could not read has name None; with a pattern given,
\* None.lower() raises AttributeError, which ends the call.
search_processes(procs, p) ==
    IF Given(p.pattern) /\ \E i \in 1..Len(procs) : IsNone(procs[i].name)
    THEN [kind |-> "error", text |-> <<>>, data |-> None,
          error |-> Some(handle_error("AttributeError"))]
    ELSE LET found == MatchingProcesses(procs, p.pattern) IN
         IF found = <<>>
         THEN IF Given(p.pattern)
              THEN SearchResult("none",
                                <<Lit("No processes found matching '", 29),
                                  Str("pattern", Val(p.pattern)), Lit("'", 1)>>, None)
              ELSE SearchResult("none", <<Lit("No processes found", 18)>>, None)
         ELSE LET processes == Limited(SortByCpu(found), p.limit) IN
              IF p.response_format = "markdown"
              THEN SearchResult("markdown",
                                check_character_limit(
                                    JoinLines(ProcessMarkdownLines(processes, p))),
                                None)
              ELSE SearchResult("json", <<>>, Some(ProcessJson(processes, p)))

\* ---- the hosts and the calls of the process search
\* Largest number of processes on the host.
MaxProcesses == 2

ProcessInfo(pid, name, cpu_percent, memory_info, status, cmdline) ==
    [pid |-> pid, name |-> name, cpu_percent |-> cpu_percent,
     memory_info |-> memory_info, status |-> status, cmdline |-> cmdline]

\* Processes: with a secret among the first three arguments and after
\* them, without a command line, with no field readable, and a busier one.
Processes == {
    ProcessInfo(1234, Some(<<"j","a","v","a">>), Some(10), Some(1048576), <<"r","u","n","n","i","n","g">>,
                Some(<< <<"j","a","v","a">>, <<"-","D","p","a","s","s","w","o","r","d","=","S","3","c","r","e","t">>, <<"-","j","a","r">>, <<"a","p","p",".","j","a","r">> >>)),
    ProcessInfo(1235, Some(<<"j","a","v","a">>), Some(10), Some(1048576), <<"r","u","n","n","i","n","g">>,
                Some(<< <<"j","a","v","a">>, <<"-","j","a","r">>, <<"a","p","p",".","j","a","r">>, <<"-","D","p","a","s","s","w","o","r","d","=","S","3","c","r","e","t">> >>)),
    ProcessInfo(1, Some(<<"s","s","h","d">>), None, None, <<"s","l","e","e","p","i","n","g">>, Some(<<>>)),
    ProcessInfo(2, None, None, None, <<"z","o","m","b","i","e">>, None),
    ProcessInfo(77, Some(<<"p","y","t","h","o","n">>), Some(255), Some(2048), <<"r","u","n","n","i","n","g">>,
                Some(<< <<"p","y","t","h","o","n">>, <<"a","p","p",".","p","y">> >>)) }

\* psutil.process_iter(): the processes of the host in the order they are
\* iterated.
ProcessTables == SeqsUpTo(Processes, MaxProcesses)

\* params.pattern, params.limit (absent, or within ge=1, le=100)
ProcessPatterns == {None, Some(<<"J","A","V","A">>), Some(<<"n","g","i","n","x">>)}
ProcessLimits == {None, Some(1), Some(20)}

\* The server of the process searches, on one of the hosts.
InitProcessSearch ==
    /\ Idle
    /\ os_environ = <<>>
    /\ filesystem = <<>>
    /\ process_iter \in ProcessTables
    /\ content_in = <<>>

\* troubleshooting_search_processes(params)
SearchProcesses(pattern, limit, response_format) ==
    LET p == [pattern |-> pattern, limit |-> limit, response_format |-> response_format] IN
    /\ proc_pc = "idle"
    /\ search_request' = p
    /\ search_result' = Some(search_processes(process_iter, p))
    /\ proc_pc' = "done"
    /\ UNCHANGED process_iter
    /\ UNCHANGED <<commandVars, environmentVars, logVars, limitVars>>

\* The text has been returned; the server waits for the next call.
ReturnProcesses ==
    /\ proc_pc = "done"
    /\ proc_pc' = "idle"
    /\ search_request' = NoProcessSearch
    /\ search_result' = None
    /\ UNCHANGED process_iter
    /\ UNCHANGED <<commandVars, environmentVars, logVars, limitVars>>

NextProcessSearch ==
    \/ /\ proc_pc = "idle"
       /\ \E pattern \in ProcessPatterns :
            \E limit \in ProcessLimits :
              \E response_format \in ResponseFormats :
                SearchProcesses(pattern, limit, response_format)
    \/ ReturnProcesses

SpecProcessSearch == InitProcessSearch /\ [][NextProcessSearch]_vars

\* ------------------------------------------------------------- check_character_limit
\* n times the character x.
Filler(n) == IF n = 0 THEN <<>> ELSE <<Lit("x", n)>>

\* Lengths of the filler: none, short, around the limit (the words before
\* and after it add up to 18 characters) and far beyond it.
FillerLengths ==
    {0, 1, 1000,
     CHARACTER_LIMIT - 19, CHARACTER_LIMIT - 18, CHARACTER_LIMIT - 17,
     CHARACTER_LIMIT - 16, CHARACTER_LIMIT - 15, CHARACTER_LIMIT - 4,
     CHARACTER_LIMIT - 3, CHARACTER_LIMIT - 2, CHARACTER_LIMIT - 1,
     CHARACTER_LIMIT, CHARACTER_LIMIT + 1, CHARACTER_LIMIT + 1000,
     2 * CHARACTER_LIMIT, 10 * CHARACTER_LIMIT}

Starts == {<<>>, <<Str("word", <<"I","M","P","O","R","T","A","N","T","_","S","T","A","R","T">>)>>, <<Str("word", <<"S">>)>>}
Ends == {<<>>, <<Str("word", <<"E","N","D">>)>>}

\* The contents check_character_limit is called with.
Contents ==
    {start \o Filler(n) \o end : start \in Starts, n \in FillerLengths, end \in Ends}

\* A caller holds one of the contents.
InitCharacterLimit ==
    /\ Idle
    /\ os_environ = <<>>
    /\ filesystem = <<>>
    /\ process_iter = <<>>
    /\ content_in \in Contents

\* check_character_limit(content)
CheckCharacterLimit ==
    /\ limit_pc = "idle"
    /\ content_out' = Some(check_character_limit(content_in))
    /\ limit_pc' = "done"
    /\ UNCHANGED content_in
    /\ UNCHANGED <<commandVars, environmentVars, logVars, processVars>>

NextCharacterLimit == CheckCharacterLimit

SpecCharacterLimit == InitCharacterLimit /\ [][NextCharacterLimit]_vars

\* ------------------------------------------------------------- reading a state
\* A request has been received in this state.
Received == pc # "idle"

\* The command name after trimming and lower-casing.
NormCommand == Lower(Strip(request.command))

\* The arguments as the validators see them (stripped; None reads as []).
SeenArgs == ArgsOrEmpty(ArgsValue(request.args))

\* The request is within the field limits and names an allowlisted command.
FieldValid == Received /\ FieldErrors(request) = {}

ErrorKinds == {e.kind : e \in errors}

ResponseKind == IF IsNone(response) THEN "" ELSE Val(response).kind

Spawned == ~IsNone(argv)

\* ------------------------------------------------------------- C1
\* C1 as stated: every command whose trimmed, lower-cased form is not in
\* SAFE_COMMANDS is rejected with the unknown-command reason.
C1_UnknownAlwaysWhitelistReason ==
    (Received /\ NormCommand \notin SAFE_COMMANDS)
        => (pc = "rejected" /\ "UnknownCommand" \in ErrorKinds)

\* C1 amended: a command whose trimmed form has 1..200 characters and whose
\* lower-cased form is not in SAFE_COMMANDS is rejected with the
\* unknown-command reason, whatever the arguments and the timeout; an empty
\* or over-long command is rejected too, with the length reason instead.
C1_UnknownCommandRejected ==
    (Received /\ NormCommand \notin SAFE_COMMANDS)
        => /\ pc = "rejected"
           /\ ~Spawned
           /\ IF Len(Strip(request.command)) \in CommandMinLength..CommandMaxLength
              THEN \E e \in errors : /\ e.kind = "UnknownCommand"
                                     /\ e.token = Some(Strip(request.command))
              ELSE /\ "UnknownCommand" \notin ErrorKinds
                   /\ ErrorKinds \cap {"string_too_short", "string_too_long"} # {}

C1_Witness ==
    /\ pc = "rejected"
    /\ request.command = <<"p","i","n","g","6">>
    /\ request.args = Some(<<<<"-","a">>, <<"d","o","w","n">>>>)
    /\ request.timeout = Some(TimeoutLe + 1)
    /\ "UnknownCommand" \in ErrorKinds

\* ------------------------------------------------------------- C2
\* The forbidden characters; "BQ" stands for the backquote, which the
\* lexer does not take inside a string.
ForbiddenChars == {";", "&", "|", "BQ", "$", "(", ")", ">", "<", "{", "}", "!"}

\* The character c occurs in the string s.
Contains(s, c) == \E i \in 1..Len(s) : s[i] = c

HasForbiddenChar(arg) == \E c \in ForbiddenChars : Contains(arg, c)

\* C2: a request for an allowlisted command with an argument that contains
\* a forbidden character anywhere is rejected (ForbiddenCharacter) and no
\* process is spawned: no request within the field limits that carries such
\* an argument ever reaches subprocess.run.
C2_ForbiddenCharacterRejected ==
    (FieldValid /\ \E i \in 1..Len(SeenArgs) : HasForbiddenChar(SeenArgs[i]))
        => ~Spawned

\* ------------------------------------------------------------- C3
\* The blocked prefixes the claim names for each prefix-block command.
ClaimedBlockedPrefixes(cmd) ==
    IF cmd = <<"d","i","g">> THEN {<<"-","f">>}
    ELSE IF cmd = <<"p","i","n","g">> THEN {<<"-","f">>}
    ELSE IF cmd = <<"s","s">>
         THEN {<<"-","D">>, <<"-","-","d","u","m","p">>, <<"-","F">>,
               <<"-","-","f","i","l","t","e","r">>, <<"-","K">>,
               <<"-","-","k","i","l","l">>, <<"-","N">>, <<"-","-","n","e","t">>}
    ELSE IF cmd = <<"d","u">>
         THEN {<<"-","-","f","i","l","e","s","0","-","f","r","o","m">>}
    ELSE IF cmd = <<"l","s","o","f">> THEN {<<"+","D">>}
    ELSE {}

\* C3: for dig, ping, ss, lsof and du, a request with an argument that equals
\* or starts with one of the command's blocked prefixes is rejected as a
\* blocked flag.
C3_BlockedPrefixRejected ==
    (FieldValid
       /\ \E i \in 1..Len(SeenArgs) :
            \E p \in ClaimedBlockedPrefixes(NormCommand) : StartsWith(SeenArgs[i], p))
        => (pc = "rejected" /\ "BlockedFlag" \in ErrorKinds)

\* ------------------------------------------------------------- C4
\* A single-dash token, not a long option and not itself starting with a
\* blocked prefix, one of whose characters after the dash is a blocked
\* single-character flag of the command.
IsCombinedBlocked(cmd, arg) ==
    /\ StartsWith(arg, <<"-">>)
    /\ ~StartsWith(arg, <<"-","-">>)
    /\ \A p \in ClaimedBlockedPrefixes(cmd) : ~StartsWith(arg, p)
    /\ \E k \in 2..Len(arg) : <<"-", arg[k]>> \in ClaimedBlockedPrefixes(cmd)

\* C4: for a prefix-block command, a combined short option that carries a
\* blocked single-character flag (ping -cf) is rejected as a blocked flag.
C4_CombinedShortRejected ==
    (FieldValid /\ \E i \in 1..Len(SeenArgs) : IsCombinedBlocked(NormCommand, SeenArgs[i]))
        => (pc = "rejected" /\ ~Spawned)

\* ------------------------------------------------------------- C5
IsFlag(arg) == StartsWith(arg, <<"-">>)

\* The positions of the non-flag tokens of the arguments.
NonFlagPositions == {i \in 1..Len(SeenArgs) : ~IsFlag(SeenArgs[i])}

FirstNonFlag == CHOOSE i \in NonFlagPositions : \A j \in NonFlagPositions : i <= j

\* A flag whose lower-cased form starts with -b stands before position k.
BatchFlagBefore(k) ==
    \E i \in 1..Len(SeenArgs) :
        i < k /\ IsFlag(SeenArgs[i]) /\ StartsWith(Lower(SeenArgs[i]), <<"-","b">>)

IpRequest == FieldValid /\ NormCommand = ip

\* C5 as stated: for ip the first non-flag token must be an allowed object,
\* else the request is rejected as a blocked object; with no non-flag token
\* the request is accepted.
C5_FirstObjectDecides ==
    IpRequest =>
        IF NonFlagPositions = {} THEN pc # "rejected"
        ELSE IF Lower(SeenArgs[FirstNonFlag]) \in ALLOWED_IP_OBJECTS
             THEN "BlockedObject" \notin ErrorKinds
             ELSE pc = "rejected" /\ "BlockedObject" \in ErrorKinds

\* C5 amended: as stated, provided no flag whose lower-cased form starts with
\* -b stands before the first non-flag token (or anywhere, when there is no
\* non-flag token); such a flag rejects the request as a blocked flag first.
C5_FirstObjectDecidesUnlessBatch ==
    IpRequest =>
        IF NonFlagPositions = {}
        THEN IF BatchFlagBefore(Len(SeenArgs) + 1)
             THEN pc = "rejected" /\ ErrorKinds = {"BlockedFlag"}
             ELSE pc # "rejected" /\ ResponseKind # "SecurityViolation"
        ELSE IF BatchFlagBefore(FirstNonFlag)
             THEN pc = "rejected" /\ ErrorKinds = {"BlockedFlag"}
        ELSE IF Lower(SeenArgs[FirstNonFlag]) \in ALLOWED_IP_OBJECTS
             THEN "BlockedObject" \notin ErrorKinds
             ELSE /\ pc = "rejected"
                  /\ errors = {Err("BlockedObject", Some(SeenArgs[FirstNonFlag]),
                                   ALLOWED_IP_OBJECTS)}

C5_Witness ==
    /\ pc = "rejected"
    /\ request.command = ip
    /\ request.args = Some(<<<<"-","a">>, <<"n","e","t">>>>)
    /\ errors = {Err("BlockedObject", Some(<<"n","e","t">>), ALLOWED_IP_OBJECTS)}

\* ------------------------------------------------------------- C6
\* C6: for ip, an argument that starts with '-' and whose lower-cased form
\* starts with -b rejects the request wherever it stands in the list.
C6_BatchFlagRejectedAnywhere ==
    (Received /\ NormCommand = ip
       /\ \E i \in 1..Len(ArgsOrEmpty(request.args)) :
            /\ IsFlag(ArgsOrEmpty(request.args)[i])
            /\ StartsWith(Lower(ArgsOrEmpty(request.args)[i]), <<"-","b">>))
        => (pc = "rejected" /\ ~Spawned)

C6_Witness ==
    /\ pc = "rejected"
    /\ request.command = ip
    /\ request.args = Some(<<<<"a","d","d","r">>, <<"-","B","a">>>>)
    /\ errors = {Err("BlockedFlag", Some(<<"-","B","a">>), {})}

\* ------------------------------------------------------------- C7
\* C7: the request ip [-br, addr] is accepted.
C7_BriefAccepted ==
    (Received /\ request.command = ip
       /\ request.args = Some(<<<<"-","b","r">>, <<"a","d","d","r">>>>)
       /\ FieldErrors(request) = {})
        => pc # "rejected"

\* ------------------------------------------------------------- C8
\* An ip request whose first non-flag token is an allowed object and none of
\* whose flags starts with -b.
IpObjectAllowed ==
    /\ IpRequest
    /\ NonFlagPositions # {}
    /\ Lower(SeenArgs[FirstNonFlag]) \in ALLOWED_IP_OBJECTS
    /\ ~BatchFlagBefore(Len(SeenArgs) + 1)

HasIpKeyword == \E i \in 1..Len(SeenArgs) : Lower(SeenArgs[i]) \in ip_dangerous_keywords

\* C8 as stated: such a request is accepted end to end, by the model
\* validation and by the tool's argument check.
C8_AfterObjectAcceptedEndToEnd ==
    IpObjectAllowed => (pc # "rejected" /\ ResponseKind # "SecurityViolation")

\* C8 amended: such a request always passes the model validation, which
\* does not look at the tokens after the object; the tool's argument check
\* then rejects it if and only if some argument, lower-cased, is one of set,
\* add, del, delete, change, replace, flush, exec, tap, tun, netns; without
\* such a token the command is spawned when its binary is found.
C8_AfterObjectOnlyKeywordsChecked ==
    IpObjectAllowed =>
        /\ pc # "rejected"
        /\ pc = "running" => ~HasIpKeyword
        /\ HasIpKeyword => ~Spawned
        /\ (pc = "done" /\ ResponseKind # "NotFound")
               => /\ (ResponseKind = "SecurityViolation") <=> HasIpKeyword
                  /\ (ResponseKind # "SecurityViolation") => Spawned

C8_Witness ==
    /\ pc = "running"
    /\ argv = Some(<<which(ip), <<"a","d","d","r">>, <<"n","e","t">>>>)

\* ------------------------------------------------------------- C9
IfconfigRequest == FieldValid /\ NormCommand = ifconfig

HasIfconfigKeyword ==
    \E i \in 1..Len(SeenArgs) : Lower(SeenArgs[i]) \in ifconfig_dangerous_keywords

HostnameRequest == FieldValid /\ NormCommand = hostname

HasNonFlagArg == \E i \in 1..Len(SeenArgs) : ~StartsWith(SeenArgs[i], <<"-">>)

IsHostnameFileFlag(arg) ==
    \/ StartsWith(arg, <<"-","F">>)
    \/ StartsWith(arg, <<"-","-","f","i","l","e">>)

\* C11: a hostname request with an argument equal to or starting with -F or
\* --file (also glued to its value, --file=/x) is rejected as a blocked
\* argument, so the command is never started with such an argument.
C11_HostnameFileFlagRejected ==
    (HostnameRequest /\ \E i \in 1..Len(SeenArgs) : IsHostnameFileFlag(SeenArgs[i]))
        => ~Spawned

\* ------------------------------------------------------------- C15
\* C15: whenever the child process is running, the call has a timeout, and
\* it lies between TimeoutGe and TimeoutLe seconds, so that the wait for the
\* child is bounded.
C15_RunningHasTimeout ==
    pc = "running" =>
        /\ ~IsNone(params.timeout)
        /\ Val(params.timeout) \in TimeoutGe..TimeoutLe

\* ------------------------------------------------------------- C16
CommandErrorKinds == {"UnknownCommand", "string_too_short", "string_too_long"}

\* The command field of the request was accepted.
CommandAccepted == Received /\ ErrorKinds \cap CommandErrorKinds = {}

NoRuleCommands == {<<"l","s","b","l","k">>, <<"d","f">>}

\* A request for such a command with a list of at most MaxItems arguments,
\* none with a forbidden character, and a timeout within its limits.
NoRuleRequest ==
    /\ Received
    /\ NormCommand \in NoRuleCommands
    /\ ~IsNone(request.args)
    /\ Len(Val(request.args)) <= MaxItems
    /\ \A i \in 1..Len(Val(request.args)) : ~HasForbiddenChar(Val(request.args)[i])
    /\ TimeoutField(request.timeout) = {}

\* The arguments of the request, each without its outer whitespace.
StrippedArgs == [i \in 1..Len(Val(request.args)) |-> Strip(Val(request.args)[i])]

\* C17 as stated: such a request is accepted and the accepted request carries
\* the arguments of the request unchanged and in order.
C17_NoRuleArgsUnchanged ==
    NoRuleRequest =>
        /\ pc # "rejected"
        /\ params.args = request.args

\* C17: such a request is accepted by the model and by the argument check of
\* the tool, and it carries the arguments in order, each stripped of leading
\* and trailing whitespace; the child is started with exactly these.
C17_NoRuleArgsStripped ==
    NoRuleRequest =>
        /\ pc # "rejected"
        /\ params.args = Some(StrippedArgs)
        /\ pc = "running" => Val(argv) = <<which(NormCommand)>> \o StrippedArgs
        /\ pc = "done" => ResponseKind \notin {"SecurityViolation", "SettingHostname"}

C17_Witness ==
    /\ pc = "running"
    /\ request.command = <<"l","s","b","l","k">>
    /\ Len(Val(request.args)) = MaxItems
    /\ Val(argv) = <<which(<<"l","s","b","l","k">>)>> \o LongArgs(MaxItems)

\* ------------------------------------------------------------- C19
\* The request names a command that is not in the allowlist.
UnknownCommandRequest == Received /\ NormCommand \notin SAFE_COMMANDS

\* An ip request whose first non-flag token is not an allowed object and is
\* not preceded by a flag starting with -b.
DisallowedObjectRequest ==
    /\ IpRequest
    /\ NonFlagPositions # {}
    /\ ~BatchFlagBefore(FirstNonFlag)
    /\ Lower(SeenArgs[FirstNonFlag]) \notin ALLOWED_IP_OBJECTS

\* C19 as stated: the rejection of a request for an unknown command (here,
\* a name of at least one character) lists every member of the allowlist.
C19_UnknownRejectionListsAllowlist ==
    (UnknownCommandRequest /\ Len(Strip(request.command)) >= CommandMinLength)
        => \E e \in errors : e.listed = SAFE_COMMANDS

\* C19: every rejection with the unknown-command reason lists exactly the
\* members of the allowlist, and a command of 1 to CommandMaxLength
\* characters that is not allowlisted gets that rejection; the rejection of
\* a disallowed ip object lists exactly the allowed objects and cites the
\* offending token as written.
C19_RejectionsEnumerateAllowed ==
    /\ \A e \in errors :
          /\ e.kind = "UnknownCommand" => e.listed = SAFE_COMMANDS
          /\ e.kind = "BlockedObject" => e.listed = ALLOWED_IP_OBJECTS
    /\ (UnknownCommandRequest
          /\ Len(Strip(request.command)) \in CommandMinLength..CommandMaxLength)
         => \E e \in errors : e.kind = "UnknownCommand" /\ e.listed = SAFE_COMMANDS
    /\ DisallowedObjectRequest
         => errors = {Err("BlockedObject", Some(SeenArgs[FirstNonFlag]), ALLOWED_IP_OBJECTS)}

C19_Witness ==
    /\ pc = "rejected"
    /\ request.command = <<"r","m">>
    /\ \E e \in errors : e.kind = "UnknownCommand" /\ e.listed = SAFE_COMMANDS

\* ------------------------------------------------------------- C20
\* The rejections of the checks of the policy: those raised while the
\* request is built and those returned by the argument check of the tool.
PolicyErrorKinds == {"UnknownCommand", "BlockedFlag", "BlockedObject"}
PolicyResponseKinds == {"SecurityViolation", "SettingHostname"}

\* C20: every rejection by a check of the policy (unknown command, ip flag,
\* ip object, ip or ifconfig keyword, hostname positional) carries a reason
\* that names the offending token: the command as written, or one of the
\* arguments of the request.
C20_RejectionNamesToken ==
    /\ \A e \in errors :
          e.kind \in PolicyErrorKinds =>
              /\ ~IsNone(e.token)
              /\ \/ Val(e.token) = Strip(request.command)
                 \/ \E i \in 1..Len(SeenArgs) : Val(e.token) = SeenArgs[i]
    /\ ResponseKind \in PolicyResponseKinds =>
          /\ ~IsNone(Val(response).token)
          /\ \E i \in 1..Len(SeenArgs) : Val(Val(response).token) = SeenArgs[i]

\* ------------------------------------------------------------- C18
\* What a set of errors says about the policy: the kind of each policy
\* rejection and the argument it cites (the unknown-command text cites the
\* command as it was written).
PolicyPart(E) ==
    {[kind  |-> e.kind,
      token |-> IF e.kind = "UnknownCommand" THEN None ELSE e.token] :
         e \in {x \in E : x.kind \in PolicyErrorKinds}}

\* The request of this state in its plainest form: the command normalized,
\* the same arguments, the smallest timeout.
CanonicalRequest ==
    [command |-> NormCommand, args |-> request.args, timeout |-> Some(TimeoutGe)]

LowerKeywords == {Lower(k) : k \in SENSITIVE_KEYWORDS}

\* The positions where a part of the name starts and where one ends: at the
\* ends of the name and next to an underscore.
PartStarts(name) == {i \in 1..Len(name) : i = 1 \/ name[i - 1] = "_"}
PartEnds(name) == {j \in 1..Len(name) : j = Len(name) \/ name[j + 1] = "_"}

\* Some whole part of the name, between underscores or the ends of the
\* name, spells a keyword in any case.
HasKeywordPart(name) ==
    \E i \in PartStarts(name) :
        \E j \in PartEnds(name) :
            i <= j /\ Lower(SubSeq(name, i, j)) \in LowerKeywords

\* The names the claim gives as Public and as Sensitive.
NamedPublic == {
    <<"K","E","Y","B","O","A","R","D">>,
    <<"M","O","N","K","E","Y","_","B","U","S","I","N","E","S","S">>,
    <<"A","U","T","H","O","R","S">>,
    <<"S","E","C","R","E","T","A","R","Y">> }

NamedSensitive == {
    <<"M","Y","_","_","S","E","C","R","E","T","_","_","K","E","Y">>,
    <<"A","p","i","_","K","e","y">> }

BackslashRun(t, h) ==
    CHOOSE n \in 0..h :
        /\ \A k \in 1..n : t[h - k + 1] = "\\"
        /\ n = h \/ t[h - n] # "\\"

UnescapeChar(c) == IF c = "n" THEN "\n" ELSE c

RECURSIVE JsonUnescape(_)
JsonUnescape(t) ==
    IF Len(t) <= 1 THEN t
    ELSE IF Len(t) = 2 /\ t[1] = "\\" THEN <<UnescapeChar(t[2])>>
    ELSE LET half == Len(t) \div 2
             h == IF BackslashRun(t, half) % 2 = 1 THEN half + 1 ELSE half
         IN JsonUnescape(SubSeq(t, 1, h)) \o JsonUnescape(SubSeq(t, h + 1, Len(t)))

JsonParseString(t) == JsonUnescape(SubSeq(t, 2, Len(t) - 1))

\* The response of the call of this state.
IsJson == env_pc = "done" /\ Val(result).format = "json"
IsMarkdown == env_pc = "done" /\ Val(result).format = "markdown"
Document == Val(Val(result).data)
Text == Val(result).text

\* The Markdown text was cut by the character limit.
TextWasCut == \E i \in 1..Len(Text) : Text[i].text = "\n\n--- TRUNCATED ---\n"

\* The positions of the Markdown text that hold the value of a variable,
\* and the name written four pieces before it (name, ":**", line feed,
\* opening fence, value).
ValuePositions == {i \in 1..Len(Text) : Text[i].kind = "value"}
KeyOfValueAt(i) == Text[i - 4].s

\* The value at position i is written whole: its closing fence follows.
ClosedAt(i) == i < Len(Text) /\ Text[i + 1].text = "\nFENCE" /\ Text[i + 1].n = 4

IsPrefix(p, s) == Len(p) <= Len(s) /\ SubSeq(s, 1, Len(p)) = p

PublicShown ==
    {k \in DOMAIN os_environ :
        ~HasKeywordPart(k) /\ PassesFilter(search_params.pattern, k)}

\* The value of k is written whole and unchanged at position i.
RawAt(i, k) == Text[i].s = os_environ[k] /\ ClosedAt(i)

\* The first ValueDisplayLimit characters of the value of k are written at
\* position i, followed by the mark of the cut and the closing fence.
CutAt(i, k) ==
    /\ Text[i].s = SubSeq(os_environ[k], 1, ValueDisplayLimit)
    /\ i + 1 < Len(Text)
    /\ Text[i + 1].text = "... (truncated)"
    /\ Text[i + 2].text = "\nFENCE"

\* C14 as stated, for the Markdown texts within the character limit: the
\* value written for a Public variable that passes the filter is its raw
\* value, whatever its length.
C14_PublicValueRawInMarkdown ==
    (IsMarkdown /\ ~TextWasCut) =>
        \A k \in PublicShown :
            \E i \in ValuePositions : KeyOfValueAt(i) = k /\ RawAt(i, k)

\* C14: for every Public variable that passes the filter, the JSON document
\* holds the raw value, whatever its length; a Markdown text within the
\* character limit holds the raw value when it has at most ValueDisplayLimit
\* characters and else its first ValueDisplayLimit characters followed by
\* the mark of the cut; a Markdown text beyond the character limit is its
\* first CHARACTER_LIMIT characters, in which a value may be cut or missing,
\* but what is written of it is the beginning of the raw value.
C14_PublicValueDisclosed ==
    /\ IsJson =>
          \A k \in PublicShown :
              /\ k \in DOMAIN Document.environment_variables
              /\ JsonParseString(Document.environment_variables[k]) = os_environ[k]
    /\ (IsMarkdown /\ ~TextWasCut) =>
          \A k \in PublicShown :
              \E i \in ValuePositions :
                  /\ KeyOfValueAt(i) = k
                  /\ IF Len(os_environ[k]) <= ValueDisplayLimit
                     THEN RawAt(i, k)
                     ELSE CutAt(i, k)
    /\ (IsMarkdown /\ TextWasCut) =>
          /\ \A i \in ValuePositions :
                KeyOfValueAt(i) \in PublicShown =>
                    IsPrefix(Text[i].s, os_environ[KeyOfValueAt(i)])
          /\ \E n \in 1..Len(Text) :
                /\ Text[n].text = "\n\n--- TRUNCATED ---\n"
                /\ TextLen(SubSeq(Text, 1, n - 1)) = CHARACTER_LIMIT

\* A Public value of ValueDisplayLimit + 1 characters in a Markdown text
\* within the character limit.
C14_Witness ==
    /\ IsMarkdown
    /\ ~TextWasCut
    /\ <<"K","E","Y","B","O","A","R","D">> \in PublicShown
    /\ os_environ[<<"K","E","Y","B","O","A","R","D">>] = XString(ValueDisplayLimit + 1)
    /\ \E i \in ValuePositions :
          KeyOfValueAt(i) = <<"K","E","Y","B","O","A","R","D">> /\ CutAt(i, <<"K","E","Y","B","O","A","R","D">>)

\* ------------------------------------------------------------- log reader claims
\* constants.ALLOWED_LOG_DIRS, as sequences of path components.
ALLOWED_LOG_DIRS == {
    << <<"v","a","r">>, <<"l","o","g">> >>,
    << <<"v","a","r">>, <<"a","d","m">> >>,
    << <<"v","a","r">>, <<"e","v","e","n","t","l","o","g">> >>,
    << <<"u","s","r">>, <<"l","o","c","a","l">>, <<"v","a","r">>, <<"l","o","g">> >>,
    << <<"C",":">>, <<"W","i","n","d","o","w","s">>, <<"S","y","s","t","e","m","3","2">>, <<"w","i","n","e","v","t">>, <<"L","o","g","s">> >> }

\* The resolved path lies inside one of the allowed log directories.
InsideAllowedLogDir(path) == \E d \in ALLOWED_LOG_DIRS : IsPrefix(d, path)

\* The reading in progress names a file whose resolved path is outside the
\* allowed log directories.
ReadsOutsideAllowed ==
    /\ log_pc = "done"
    /\ Given(log_params.file_path)
    /\ ~IsNone(ResolvedPath(Val(log_params.file_path)))
    /\ ~InsideAllowedLogDir(Val(ResolvedPath(Val(log_params.file_path))))

\* C21: the log reader only reads files inside an allowed log directory
\* after the path is resolved; for a path outside them, reached directly or
\* by traversing out of an allowed directory, the content of the file is
\* never returned.
C21_OutsideAllowedNeverRead ==
    ReadsOutsideAllowed => Val(log_result).kind # "content"

\* ------------------------------------------------------------- process search claims
PasswordOption == <<"-","D","p","a","s","s","w","o","r","d","=">>

\* The secrets passed on a command line: the values of its -Dpassword=
\* arguments.
SecretsOf(cmdline) ==
    {SubSeq(cmdline[i], Len(PasswordOption) + 1, Len(cmdline[i])) :
        i \in {j \in 1..Len(cmdline) : /\ StartsWith(cmdline[j], PasswordOption)
                                       /\ Len(cmdline[j]) > Len(PasswordOption)}}

HostSecrets ==
    UNION {SecretsOf(Val(process_iter[i].cmdline)) :
              i \in {j \in 1..Len(process_iter) : ~IsNone(process_iter[j].cmdline)}}

\* The command lines a finished search shows, read from the Markdown text
\* or from the JSON document.
ShownCommandLines ==
    LET r == Val(search_result) IN
    {r.text[i].s : i \in {j \in 1..Len(r.text) : r.text[j].kind = "cmdline"}}
    \cup (IF IsNone(r.data) THEN {}
          ELSE {JsonParseString(Val(Val(r.data).processes[i].cmdline)) :
                   i \in {j \in 1..Len(Val(r.data).processes) :
                             ~IsNone(Val(r.data).processes[j].cmdline)}})

\* C22: the output of a process search never contains a secret passed on a
\* process command line: the value of an argument -Dpassword=<value> does
\* not occur in any command line shown.
C22_SecretsNotShown ==
    proc_pc = "done" =>
        \A secret \in HostSecrets :
            \A shown \in ShownCommandLines : ~IsSubstring(secret, shown)

\* ------------------------------------------------------------- C23
\* The request breaks a bound as the claim states them: more than MaxItems
\* arguments, a timeout outside its limits, or a command string of more
\* than CommandMaxLength characters as written.
TooManyArgs == ~IsNone(request.args) /\ Len(Val(request.args)) > MaxItems
TimeoutOutOfRange ==
    ~IsNone(request.timeout) /\ Val(request.timeout) \notin TimeoutGe..TimeoutLe
WrittenCommandTooLong == Len(request.command) > CommandMaxLength
StrippedCommandTooLong == Len(Strip(request.command)) > CommandMaxLength

\* C23 as stated: a request with more than 20 arguments, a timeout below 1
\* or above 300, or a command string longer than 200 characters is rejected.
C23_OverBoundsRejected ==
    (Received /\ (TooManyArgs \/ TimeoutOutOfRange \/ WrittenCommandTooLong))
        => pc = "rejected"

IpPolicyErrorKinds == {"BlockedFlag", "BlockedObject"}

\* C23: a request with more than 20 arguments, a timeout below 1 or above
\* 300, or a command longer than 200 characters once stripped is rejected
\* when the input model is built, with no ip rule evaluated, no response of
\* the tool and no process; a command over its length is not looked up in
\* the allowlist.  A request for an allowlisted command other than ip with
\* at most 20 arguments (or none given) and a timeout from 1 to 300, the
\* limits included (or none given), is accepted by the input model.
C23_BoundsEnforced ==
    Received =>
        /\ (TooManyArgs \/ TimeoutOutOfRange \/ StrippedCommandTooLong)
               => /\ pc = "rejected"
                  /\ ErrorKinds \cap IpPolicyErrorKinds = {}
                  /\ IsNone(response)
                  /\ ~Spawned
        /\ StrippedCommandTooLong => "UnknownCommand" \notin ErrorKinds
        /\ (/\ NormCommand \in SAFE_COMMANDS \ {ip}
            /\ ~TooManyArgs
            /\ ~TimeoutOutOfRange)
               => pc # "rejected"

\* A request with MaxItems arguments and the smallest timeout is running.
C23_Witness ==
    /\ pc = "running"
    /\ request.args = Some(LongArgs(MaxItems))
    /\ request.timeout = Some(TimeoutGe)

\* ------------------------------------------------------------- C24
\* The character at position k of a text: of a string of the data the
\* character itself, of a literal the literal and the position in it.
RECURSIVE CharAt(_, _)
CharAt(t, k) ==
    LET p == Head(t) IN
    IF k > p.n THEN CharAt(Tail(t), k - p.n)
    ELSE IF p.kind = "lit" THEN <<p.text, k>>
    ELSE <<p.s[k]>>

\* The number of leading pieces of a text that hold its first m characters.
RECURSIVE PiecesFor(_, _)
PiecesFor(t, m) ==
    IF m <= 0 \/ t = <<>> THEN 0 ELSE 1 + PiecesFor(Tail(t), m - Head(t).n)

\* What follows the first CHARACTER_LIMIT characters of the returned text.
Notice == LET r == Val(content_out) IN
          SubSeq(r, PiecesFor(r, CHARACTER_LIMIT) + 1, Len(r))

NoticeTexts == {Notice[i].text : i \in 1..Len(Notice)}

IpArgsPass ==
    NormCommand = ip =>
        /\ ~BatchFlagBefore(Len(SeenArgs) + 1)
        /\ NonFlagPositions # {} => Lower(SeenArgs[FirstNonFlag]) \in ALLOWED_IP_OBJECTS

\* The per-command rules of the tool pass.
PerCommandPass ==
    /\ NormCommand = ip => ~HasIpKeyword
    /\ NormCommand = ifconfig => ~HasIfconfigKeyword
    /\ NormCommand = hostname => ~HasNonFlagArg

\* C25: no process is spawned before the request is fully accepted: the
\* step that starts the child is taken from a validated request without
\* errors; whenever a child has been started the command is allowlisted and
\* the ip rules and the per-command rules pass; and a request rejected by
\* the input model or by the argument check has no child.
C25_SpawnOnlyAfterAccepted ==
    /\ [][ (~Spawned /\ Spawned')
              => (pc = "validated" /\ errors = {} /\ IsNone(response) /\ pc' = "running")
         ]_vars
    /\ [](Spawned => (NormCommand \in SAFE_COMMANDS /\ IpArgsPass /\ PerCommandPass))
    /\ []((pc = "rejected" \/ ResponseKind \in PolicyResponseKinds) => ~Spawned)

\* ip with an allowed object and no keyword is running.
C25_Witness ==
    /\ pc = "running"
    /\ request.command = ip
    /\ argv = Some(<<which(ip), <<"a","d","d","r">>, <<"s","h","o","w">>>>)

\* ------------------------------------------------------------- C26
\* The request carries an argument with a forbidden character and also
\* breaks a rule of its command, and it has been rejected.
ForbiddenAndRuleBroken ==
    /\ FieldValid
    /\ \E i \in 1..Len(SeenArgs) : HasForbiddenChar(SeenArgs[i])
    /\ ~IpArgsPass \/ ~PerCommandPass
    /\ pc = "rejected" \/ ResponseKind \in PolicyResponseKinds

\* C26: the forbidden-character check runs before any command-specific
\* rule: a request for an allowlisted command that contains a forbidden
\* character and also breaks the rule of its command is rejected with the
\* ForbiddenCharacter reason, not with the command-specific one.
C26_ForbiddenCharacterReasonFirst ==
    ForbiddenAndRuleBroken =>
        ("ForbiddenCharacter" \in ErrorKinds \/ ResponseKind = "ForbiddenCharacter")

\* ------------------------------------------------------------- C27
\* The texts the tool function returns: the formatted output, a policy
\* rejection, the not-found and timed-out errors, and the texts of
\* handle_error.
OutcomeKinds ==
    {"Output", "SecurityViolation", "SettingHostname", "NotFound", "TimedOut"}
HandledErrorKinds ==
    {"PermissionDenied", "FileOrResourceNotFound", "OperationTimedOut", "InvalidInput", "Error"}

\* C27: the tool function never lets a fault abort the caller: every step
\* of a call on a validated request leads to the running child or to the
\* end of the call, and every call that has ended holds a text: the
\* formatted output, a policy rejection, a not-found error, a timed-out
\* error, or the text made from the exception raised.
C27_EveryCallReturnsText ==
    /\ [][ (pc \in {"validated", "running"}) => (pc' \in {"running", "done"})
         ]_vars
    /\ [](pc = "done" =>
             /\ ~IsNone(response)
             /\ ResponseKind \in OutcomeKinds \cup HandledErrorKinds
             /\ ResponseKind \in {"Output", "TimedOut"} \cup HandledErrorKinds
                    => (Spawned \/ IsNone(params.args)))
    /\ [](pc \in {"idle", "validated", "running", "rejected", "done"})

\* subprocess.run raised PermissionError and the call ended with its text.
C27_Witness ==
    /\ pc = "done"
    /\ Spawned
    /\ response = Some(Err("PermissionDenied", None, {}))

\* ------------------------------------------------------------- C28
\* C28 as stated: the spawned argument vector is the resolved path of the
\* normalized command followed by the arguments of the request, in order
\* and unmodified.
C28_SpawnedArgsAsRequested ==
    Spawned => Val(argv) = <<which(NormCommand)>> \o Val(request.args)

\* C28: what is executed is what was validated: the spawned argument
\* vector is the resolved path of the normalized, allowlisted command
\* followed by the arguments of the request in their order, each without
\* its outer whitespace, which are the arguments the validated instance
\* holds; nothing changes the instance between validation and spawn, nor
\* the vector while the child runs.
C28_SpawnedIsValidated ==
    /\ [](Spawned =>
             /\ ~IsNone(request.args)
             /\ NormCommand \in SAFE_COMMANDS
             /\ params.command = NormCommand
             /\ params.args = Some(StrippedArgs)
             /\ Val(argv) = <<which(NormCommand)>> \o StrippedArgs)
    /\ [][ (pc \in {"validated", "running"})
              => (params' = params /\ request' = request /\ (Spawned => argv' = argv))
         ]_vars

\* hostname with the flag written after a space runs with the bare flag.
C28_Witness ==
    /\ pc = "running"
    /\ request.command = hostname
    /\ request.args = Some(<< <<" ","-","s">> >>)
    /\ argv = Some(<<which(hostname), <<"-","s">>>>)

\* ------------------------------------------------------------- C29
\* C29: a request whose args field is None is handled like a request with
\* an empty argument list: it passes both validation layers and, when the
\* binary is found, the command is executed with no arguments instead of
\* ending in an internal type error.
C29_NoneArgsRunsWithoutArguments ==
    (FieldValid /\ IsNone(request.args) /\ pc = "done" /\ ResponseKind # "NotFound")
        => /\ argv = Some(<<which(NormCommand)>>)
           /\ response # Some(handle_error("TypeError"))

\* ------------------------------------------------------------- C30
\* C30: a request that breaks a per-command keyword rule (an ip or ifconfig
\* keyword, a hostname positional) and passes the input model is always
\* answered with the security-violation reason of that rule, whether or not
\* the binary of the command is installed on the host.
C30_KeywordRejectionWhateverLookup ==
    (FieldValid /\ IpArgsPass /\ ~PerCommandPass /\ pc = "done")
        => ResponseKind \in PolicyResponseKinds
====
